---- MODULE Spec2Model ----
(***************************************************************************)
(* State-machine model of the horton_part iterative-stockholder code:      *)
(*   gisa.py  GaussianIterativeStockholderWPart and its fitting functions  *)
(*   lisa.py  LinearIterativeStockholderWPart and the opt_propars_* family *)
(*   mbis.py  MBISWPart and _opt_mbis_propars                              *)
(*                                                                         *)
(* Real numbers are fixed-point integers.  Amplitudes (propars) are whole  *)
(* numbers of amplitude units; densities live on a two-point radial grid   *)
(* whose quadrature measure 4*pi*r^2*w is one per point, and carry the     *)
(* factor BsNorm, so that a basis function integrates to BsNorm.  A value  *)
(* of the code that is an exact quotient is rounded once, to the nearest   *)
(* unit (DivRound), the way a floating-point result is rounded.            *)
(***************************************************************************)
EXTENDS Integers, Sequences, FiniteSets, TLC

VARIABLES
    cfg,        \* the keyword arguments handed to the constructor
    obj,        \* the constructed partitioner (fields set by __init__)
    cphase,     \* "new" | "built" | "dispatched"
    coutcome,   \* what the dispatch on self._solver ended in
    sin,        \* arguments of one call of a propars solver
    srun,       \* that call's local variables and its outcome
    part        \* a partitioning run: ranges, propars, charges, loop position

ctorVars == <<cfg, obj, cphase, coutcome>>
solverVars == <<sin, srun>>

vars == <<cfg, obj, cphase, coutcome, sin, srun, part>>

-----------------------------------------------------------------------------
(* Python values of mixed type: a solver tag is an int, a basis function   *)
(* type a str.  ==  between an int and a str is False in Python.           *)

PyInt(n) == <<"int", n>>
PyStr(s) == <<"str", s>>
PyEq(a, b) == a[1] = b[1] /\ a[2] = b[2]

-----------------------------------------------------------------------------
(* Constructors: positional argument binding.                              *)

\* Parameters of GaussianIterativeStockholderWPart.__init__ after spindens.
GisaParams ==
    <<"lmax", "threshold", "maxiter", "inner_threshold",
      "local_grid_radius", "solver", "basis_func_type">>

GisaDefaults ==
    [lmax |-> PyInt(3), threshold |-> PyStr("1e-6"), maxiter |-> PyInt(500),
     inner_threshold |-> PyStr("1e-8"), local_grid_radius |-> PyStr("8.0"),
     solver |-> PyInt(1), basis_func_type |-> PyStr("gauss")]

\* Python binds the i-th positional argument to the i-th parameter; the
\* parameters left over take their defaults.
BindPositional(params, defaults, args) ==
    [name \in {params[i] : i \in 1..Len(params)} |->
        LET i == CHOOSE j \in 1..Len(params) : params[j] = name
        IN  IF i <= Len(args) THEN args[i] ELSE defaults[name]]

\* GaussianIterativeStockholderWPart.__init__: the fields it sets from its
\* own parameters.
GisaInit(bound) ==
    [scheme |-> "gisa",
     solver |-> bound["solver"],
     func_type |-> bound["basis_func_type"],
     local_grid_radius |-> bound["local_grid_radius"],
     lmax |-> bound["lmax"],
     threshold |-> bound["threshold"],
     maxiter |-> bound["maxiter"],
     inner_threshold |-> bound["inner_threshold"],
     diis_size |-> PyInt(0),
     use_global_method |-> FALSE]

\* The positional arguments LinearIterativeStockholderWPart.__init__ hands to
\* GaussianIterativeStockholderWPart.__init__ after spindens.
LisaSuperArgs(c) ==
    <<c.lmax, c.threshold, c.maxiter, c.inner_threshold, c.solver,
      c.basis_func_type>>

LisaInit(c) ==
    [GisaInit(BindPositional(GisaParams, GisaDefaults, LisaSuperArgs(c)))
        EXCEPT !.scheme = "lisa",
               !.diis_size = c.diis_size,
               !.use_global_method = c.use_global_method]

\* A GISA partitioner built with keyword arguments (as the script does).
GisaInitKw(c) ==
    GisaInit([GisaDefaults EXCEPT !.lmax = c.lmax, !.threshold = c.threshold,
                                  !.maxiter = c.maxiter,
                                  !.inner_threshold = c.inner_threshold,
                                  !.solver = c.solver,
                                  !.basis_func_type = c.basis_func_type])

-----------------------------------------------------------------------------
(* Dispatch on self._solver.                                               *)

GisaTags == {0, 1, 2, 3}
LisaTags == {0, 1, 2, 21, 101, 102, 103, 201, 202, 203, 204, 205, 206, 207}
GlobalTags == {1, 2}

IsTag(v, n) == PyEq(v, PyInt(n))

\* GaussianIterativeStockholderWPart._opt_propars: the function selected.
GisaOptPropars(solver) ==
    IF IsTag(solver, 1) THEN "_constrained_least_squares_quadprog"
    ELSE IF IsTag(solver, 2) THEN "_constrained_least_squares"
    ELSE IF IsTag(solver, 3) THEN "_constrained_least_cvxopt"
    ELSE IF IsTag(solver, 0) THEN "_solver_comparison"
    ELSE "NotImplementedError"

\* LinearIterativeStockholderWPart._opt_propars: the function selected.
LisaOptPropars(solver) ==
    IF IsTag(solver, 1) THEN "opt_propars_minimization_fast"
    ELSE IF IsTag(solver, 101) THEN "opt_propars_minimization_slow"
    ELSE IF IsTag(solver, 102) THEN "opt_propars_minimization_trust_constr"
    ELSE IF IsTag(solver, 103) THEN "opt_propars_minimization_no_constr"
    ELSE IF IsTag(solver, 2) THEN "opt_propars_fixed_points_sc"
    ELSE IF IsTag(solver, 21) THEN "opt_propars_fixed_points_plus_lisa1"
    ELSE IF IsTag(solver, 201) THEN "opt_propars_fixed_points_sc_damping"
    ELSE IF IsTag(solver, 202) THEN "opt_propars_fixed_points_diis"
    ELSE IF IsTag(solver, 203) THEN "opt_propars_fixed_points_newton"
    ELSE IF IsTag(solver, 204) THEN "opt_propars_fixed_points_fslove"
    ELSE IF IsTag(solver, 205) THEN "opt_propars_fixed_points"
    ELSE IF IsTag(solver, 206) THEN "opt_propars_fixed_points_diis2"
    ELSE IF IsTag(solver, 207) THEN "opt_propars_fixed_point_trust_constr"
    ELSE IF IsTag(solver, 0) THEN "_solver_comparison"
    ELSE "NotImplementedError"

\* The global-mode branch of LinearIterativeStockholderWPart.do_partitioning.
GlobalDispatch(solver) ==
    IF IsTag(solver, 1) THEN "_update_propars_lisa1_globally"
    ELSE IF IsTag(solver, 2) THEN "_update_propars_lisa2_globally"
    ELSE "NotImplementedError"

-----------------------------------------------------------------------------
(* The construct-then-dispatch machine.                                    *)

CfgSolvers == LisaTags \cup {3, 5, 22, 200, 208}
CfgFuncTypes == {"gauss", "slater"}
CfgDiisSizes == {2, 8}

Cfgs ==
    [scheme : {"gisa", "lisa"},
     lmax : {PyInt(3)},
     threshold : {PyStr("1e-6")},
     maxiter : {PyInt(500)},
     inner_threshold : {PyStr("1e-8")},
     solver : {PyInt(t) : t \in CfgSolvers},
     basis_func_type : {PyStr(f) : f \in CfgFuncTypes},
     diis_size : {PyInt(d) : d \in CfgDiisSizes},
     use_global_method : BOOLEAN]

NoObj == [scheme |-> "none"]
NoCall == [fn |-> "none"]
NoRun == [st |-> "none"]
NoPart == [phase |-> "none"]

CtorInit ==
    /\ cfg \in Cfgs
    /\ obj = NoObj
    /\ cphase = "new"
    /\ coutcome = "none"
    /\ sin = NoCall
    /\ srun = NoRun
    /\ part = NoPart

Construct ==
    /\ cphase = "new"
    /\ obj' = IF cfg.scheme = "lisa" THEN LisaInit(cfg) ELSE GisaInitKw(cfg)
    /\ cphase' = "built"
    /\ UNCHANGED <<cfg, coutcome, solverVars, part>>

\* One call of self._opt_propars from _update_propars_atom.
DispatchAtom ==
    /\ cphase = "built"
    /\ ~(obj.scheme = "lisa" /\ obj.use_global_method)
    /\ coutcome' = IF obj.scheme = "lisa" THEN LisaOptPropars(obj.solver)
                   ELSE GisaOptPropars(obj.solver)
    /\ cphase' = "dispatched"
    /\ UNCHANGED <<cfg, obj, solverVars, part>>

\* do_partitioning with use_global_method set.
DispatchGlobal ==
    /\ cphase = "built"
    /\ obj.scheme = "lisa" /\ obj.use_global_method
    /\ coutcome' = GlobalDispatch(obj.solver)
    /\ cphase' = "dispatched"
    /\ UNCHANGED <<cfg, obj, solverVars, part>>

CtorNext == Construct \/ DispatchAtom \/ DispatchGlobal

CtorSpec == CtorInit /\ [][CtorNext]_vars

-----------------------------------------------------------------------------
(* Fixed-point numerics on the radial grid.                                *)

\* bs_helper.compute_proshell_dens(1.0, alpha, r) on the two grid points, for
\* the widths 1 (tight), 2, 3 (diffuse); every row integrates to BsNorm.
BsTable == << <<3, 1>>, <<2, 2>>, <<1, 3>> >>

Points == DOMAIN BsTable[1]
NPts == Len(BsTable[1])
BsNorm == BsTable[1][1] + BsTable[1][2]

\* The quotient n/d rounded to the nearest unit (d > 0).
DivRound(n, d) == (2 * n + d) \div (2 * d)

Abs(x) == IF x < 0 THEN -x ELSE x

RECURSIVE SumTo(_, _)
SumTo(f, n) == IF n = 0 THEN 0 ELSE f[n] + SumTo(f, n - 1)

\* The sum of the entries of a sequence (np.sum).
Sum(f) == SumTo(f, Len(f))

\* rgrid.integrate(4 * pi * r**2, f): the quadrature measure is one per point.
Integrate(f) == SumTo(f, NPts)

\* The population N_a = rgrid.integrate(4 * pi * r**2, rho) in amplitude units.
Population(rho) == DivRound(Integrate(rho), BsNorm)

\* bs_helper.compute_proshell_dens(c, alpha, r).
compute_proshell_dens(c, alpha) == [p \in Points |-> c * BsTable[alpha][p]]

\* terms (or shells): one pro-shell density per primitive.
Shells(propars, alphas) ==
    [k \in 1..Len(propars) |-> compute_proshell_dens(propars[k], alphas[k])]

\* terms.sum(axis=0)
SumShells(terms) ==
    [p \in Points |-> SumTo([k \in 1..Len(terms) |-> terms[k][p]], Len(terms))]

\* np.clip(x, 1e-100, np.inf): the floor 1e-100 is below every unit, so a
\* floored entry is written 0 and handled where it is divided by.
ClipFloor(x) == [p \in DOMAIN x |-> IF x[p] > 0 THEN x[p] ELSE 0]

AnyBelow(terms, bound) ==
    \E k \in DOMAIN terms : \E p \in DOMAIN terms[k] : terms[k][p] < bound

\* What stands for a quotient by the floor 1e-100 of a non-zero numerator.
Huge == 1000 * 1000

RECURSIVE ProdExcept(_, _, _)
\* The product of d[q] over the points q <= n other than p (a floored d[q]
\* counts as one: its own quotient is taken separately).
ProdExcept(d, p, n) ==
    IF n = 0 THEN 1
    ELSE (IF n = p \/ d[n] = 0 THEN 1 ELSE d[n]) * ProdExcept(d, p, n - 1)

\* The share integral taken of the density error rho - pro instead of rho.
IntegrateShareOfError(term, rho, pro) ==
    DivRound(SumTo([p \in Points |->
                      IF pro[p] = 0 THEN 0
                      ELSE term[p] * (rho[p] - pro[p])
                              * ProdExcept(pro, p, NPts)], NPts),
             BsNorm * ProdExcept(pro, 0, NPts))

\* rgrid.integrate(4 * pi * r**2, term * rho / pro) in amplitude units: the
\* exact sum of the quotients, rounded once.
IntegrateShare(term, rho, pro) ==
    LET num == SumTo([p \in Points |->
                        IF pro[p] = 0 THEN 0
                        ELSE term[p] * rho[p] * ProdExcept(pro, p, NPts)], NPts)
        den == BsNorm * ProdExcept(pro, 0, NPts)
        overflow == SumTo([p \in Points |->
                        IF pro[p] = 0 /\ term[p] * rho[p] > 0 THEN Huge
                        ELSE IF pro[p] = 0 /\ term[p] * rho[p] < 0 THEN -Huge
                        ELSE 0], NPts)
    IN  DivRound(num, den) + overflow

\* The self-consistent update N_k = int rho_k * rho / pro of every primitive.
FixedPointMap(propars, alphas, rho) ==
    LET terms == Shells(propars, alphas)
        pro == ClipFloor(SumShells(terms))
    IN  [k \in 1..Len(propars) |-> IntegrateShare(terms[k], rho, pro)]

\* change = sqrt(rgrid.integrate(4 * pi * r**2, error, error)) squared.
Change2(oldpro, pro) ==
    Integrate([p \in Points |-> (oldpro[p] - pro[p]) * (oldpro[p] - pro[p])])

\* `change < threshold`, with change = 1e100 while oldpro is None.
ChangeBelow(oldpro, pro, threshold) ==
    /\ oldpro # <<>>
    /\ threshold > 0
    /\ Change2(oldpro, pro) < threshold * threshold

-----------------------------------------------------------------------------
(* The state of one solver call.                                           *)

Return(s, propars) == [s EXCEPT !.st = "ret", !.propars = propars]
Raise(s, e) == [s EXCEPT !.st = "raise", !.err = e]

\* Stands for int(1e10), the cap of the SC and damped SC loops.
ScCap == 12
\* range(1000) of the SC loop with the LISA-1 fallback.
FallbackCap == 1000

\* One pass of the loop body of opt_propars_fixed_points_sc.
ScIter(in, s) ==
    IF s.irep >= ScCap THEN Raise(s, "NotConverged")
    ELSE
        LET terms == Shells(s.propars, in.alphas)
        IN  IF AnyBelow(terms, 0) THEN Raise(s, "NegShell")
            ELSE
                LET pro == ClipFloor(SumShells(terms))
                    new == [k \in 1..Len(s.propars) |->
                               IntegrateShare(terms[k], in.rho, pro)]
                IN  IF ChangeBelow(s.oldpro, pro, in.threshold)
                    THEN Return(s, new)
                    ELSE [s EXCEPT !.propars = new, !.oldpro = pro,
                                   !.irep = @ + 1]

\* propars + 0.9 * (-propars + oldprapars), entry by entry.
DampingBlend(new, oldprapars) ==
    [k \in 1..Len(new) |->
        DivRound(10 * new[k] + 9 * (oldprapars[k] - new[k]), 10)]

\* One pass of the loop body of opt_propars_fixed_points_sc_damping.
DampingIter(in, s) ==
    IF s.irep >= ScCap THEN Raise(s, "NotConverged")
    ELSE
        LET terms == Shells(s.propars, in.alphas)
            pro == ClipFloor(SumShells(terms))
            new == [k \in 1..Len(s.propars) |->
                       IntegrateShare(terms[k], in.rho, pro)]
            blended == DampingBlend(new, s.old0)
        IN  IF ChangeBelow(s.oldpro, pro, in.threshold)
            THEN Return(s, blended)
            ELSE [s EXCEPT !.propars = blended, !.oldpro = pro, !.irep = @ + 1]

\* Parameters of opt_propars_minimization_fast that have no default.
MinFastRequired ==
    <<"bs_helper", "rho", "propars", "rgrid", "alphas", "threshold">>

\* The call opt_propars_minimization_fast(rho, oldpropars, rgrid, alphas,
\* threshold) that ends opt_propars_fixed_points_plus_lisa1.
FallbackArgs == <<"rho", "oldpropars", "rgrid", "alphas", "threshold">>

\* One pass of the loop body of opt_propars_fixed_points_plus_lisa1; after the
\* loop, the hand-over to the LISA-1 minimization.
FallbackIter(in, s) ==
    IF s.irep >= FallbackCap
    THEN IF Len(FallbackArgs) < Len(MinFastRequired)
         THEN Raise(s, "TypeError")
         ELSE Raise(s, "MinimizationCalled")
    ELSE
        LET terms == Shells(s.propars, in.alphas)
            pro == ClipFloor(SumShells(terms))
            new == [k \in 1..Len(s.propars) |->
                       IntegrateShare(terms[k], in.rho, pro)]
        IN  IF ChangeBelow(s.oldpro, pro, in.threshold)
            THEN Return(s, new)
            ELSE [s EXCEPT !.propars = new, !.oldpro = pro, !.irep = @ + 1]

-----------------------------------------------------------------------------
(* Small exact linear algebra (scipy.linalg.solve by Cramer's rule).       *)

\* The matrix m (a sequence of rows) without row i and column j.
Minor(m, i, j) ==
    LET n == Len(m)
        row(r) == IF r < i THEN m[r] ELSE m[r + 1]
    IN  [r \in 1..(n - 1) |->
            [c \in 1..(n - 1) |-> IF c < j THEN row(r)[c] ELSE row(r)[c + 1]]]

RECURSIVE Det(_)
Det(m) ==
    IF Len(m) = 0 THEN 1
    ELSE IF Len(m) = 1 THEN m[1][1]
    ELSE SumTo([j \in 1..Len(m) |->
                   (IF j % 2 = 1 THEN 1 ELSE -1) * m[1][j] * Det(Minor(m, 1, j))],
               Len(m))

ReplaceCol(m, j, v) ==
    [r \in 1..Len(m) |-> [c \in 1..Len(m) |-> IF c = j THEN v[r] ELSE m[r][c]]]

\* solve(m, v): the numerators of the solution over the common denominator
\* den > 0; den = 0 when m is singular (LinAlgError).
Solve(m, v) ==
    LET d == Det(m)
        sgn == IF d < 0 THEN -1 ELSE 1
    IN  [den |-> sgn * d,
         num |-> [j \in 1..Len(m) |-> sgn * Det(ReplaceCol(m, j, v))]]

Dot(x, y) == SumTo([i \in 1..Len(x) |-> x[i] * y[i]], Len(x))

\* The last n entries of a history list: history[-n:]; history[-0:] is
\* history[0:], the whole list.
LastN(h, n) ==
    IF n = 0 \/ Len(h) <= n THEN h ELSE SubSeq(h, Len(h) - n + 1, Len(h))

\* The Pulay matrix B of the residuals diis_prev, bordered by -1 and 0.
PulayMatrix(diis_prev) ==
    LET n == Len(diis_prev)
    IN  [i \in 1..(n + 1) |->
            [j \in 1..(n + 1) |->
                IF i = n + 1 /\ j = n + 1 THEN 0
                ELSE IF i = n + 1 \/ j = n + 1 THEN -1
                ELSE Dot(diis_prev[i], diis_prev[j])]]

\* rhs of the Pulay equation: zeros, then -1.
PulayRhs(n) == [i \in 1..(n + 1) |-> IF i = n + 1 THEN -1 ELSE 0]

\* einsum("i, ip->p", coeff[:-1], prev): the mix of the history vectors, each
\* entry rounded once.
Mix(sol, prev) ==
    [p \in DOMAIN prev[1] |->
        DivRound(SumTo([i \in 1..Len(prev) |-> sol.num[i] * prev[i][p]],
                       Len(prev)), sol.den)]

\* np.sum(coeff[:-1]) is 1 (np.isclose): exact for an exact solution.
CoeffSumIsOne(sol, n) ==
    SumTo([i \in 1..n |-> sol.num[i]], n) = sol.den

-----------------------------------------------------------------------------
(* Tolerances.                                                             *)

\* The rounding noise of one stored amplitude sum, in amplitude units: the
\* tolerances of the code (1e-10, rtol 1e-5, atol 1e-4) lie above the noise of
\* its arithmetic and below every amplitude, as this does here.
RoundTol == 1

\* np.isclose(a, b) for two populations.
IsClose(a, b) == Abs(a - b) <= RoundTol

\* np.all(propars >= -1e-10): -1e-10 is below the amplitude unit.
AllNonNeg(x) == \A k \in DOMAIN x : x[k] >= 0

\* `drms < threshold` for an amplitude-space norm (its square is d2): the
\* threshold is carried in density units, BsNorm per amplitude unit.
AmpBelow(d2, threshold) ==
    threshold > 0 /\ BsNorm * BsNorm * d2 < threshold * threshold

-----------------------------------------------------------------------------
(* DIIS-accelerated self-consistent solvers.                               *)

\* range(1000) of both DIIS loops and of the Newton loop.
DiisCap == 1000
NewtonCap == 1000

\* rgrid.integrate of shells * rho / pro for clipped DIIS shells: where both the
\* shell and pro sit on the floor 1e-100, the quotient is one.
IntegrateShareF(term, rho, pro, floored) ==
    LET unit == SumTo([p \in Points |->
                        IF floored /\ pro[p] = 0 /\ term[p] = 0
                        THEN rho[p] * ProdExcept(pro, 0, NPts) ELSE 0], NPts)
        num == SumTo([p \in Points |->
                        IF pro[p] = 0 THEN 0
                        ELSE term[p] * rho[p] * ProdExcept(pro, p, NPts)], NPts)
        den == BsNorm * ProdExcept(pro, 0, NPts)
        overflow == SumTo([p \in Points |->
                        IF pro[p] = 0 /\ term[p] * rho[p] > 0 THEN Huge
                        ELSE 0], NPts)
    IN  DivRound(num + unit, den) + overflow

NewDiisRun(propars) ==
    [st |-> "run", err |-> "none", propars |-> propars, oldpro |-> <<>>,
     irep |-> 0, old0 |-> propars, warned |-> {},
     hshells |-> <<>>, hpros |-> <<>>, hdiis |-> <<>>, off |-> FALSE,
     mixed |-> FALSE, validated |-> FALSE, bdim |-> 0]

\* The loop body with a Pulay step in every pass from start_diis_iter on,
\* whether or not DIIS was turned off before.
DiisIterIgnoringOff(in, s) ==
    IF s.irep >= DiisCap THEN Raise(s, "NotConverged")
    ELSE
        LET n == in.diis_size
            shells == Shells(s.propars, in.alphas)
            pro == ClipFloor(SumShells(shells))
            diis_r == IF s.irep = 0 THEN pro
                      ELSE [p \in Points |-> pro[p] - s.oldpro[p]]
            hs == LastN(Append(s.hshells, shells), n)
            hp == LastN(Append(s.hpros, pro), n)
            hd == LastN(Append(s.hdiis, diis_r), n)
            drms2 == Integrate([p \in Points |-> diis_r[p] * diis_r[p]])
        IN  IF in.threshold > 0 /\ drms2 < in.threshold * in.threshold
            THEN IF ~IsClose(Population(in.rho), Sum(s.propars))
                 THEN Raise(s, "AssertionError")
                 ELSE IF ~AllNonNeg(s.propars) THEN Raise(s, "NegPropars")
                 ELSE Return(s, s.propars)
            ELSE
                LET try == s.irep >= n
                    sol == Solve(PulayMatrix(hd), PulayRhs(Len(hd)))
                    mix == try /\ sol.den # 0
                    shellsX == IF mix
                               THEN [k \in 1..Len(shells) |->
                                       ClipFloor(Mix(sol, [i \in 1..Len(hs) |->
                                                              hs[i][k]]))]
                               ELSE shells
                    proX == IF mix THEN ClipFloor(Mix(sol, hp)) ELSE pro
                    new == [k \in 1..Len(s.propars) |->
                               IntegrateShareF(shellsX[k], in.rho, proX, mix)]
                    asserted == mix /\ in.do_debug
                IN  IF asserted /\ ~CoeffSumIsOne(sol, Len(hd))
                    THEN Raise(s, "AssertionError")
                    ELSE
                    [s EXCEPT !.propars = new, !.oldpro = proX, !.irep = @ + 1,
                              !.hshells = hs, !.hpros = hp, !.hdiis = hd,
                              !.off = s.off \/ (try /\ sol.den = 0),
                              !.mixed = mix, !.validated = asserted,
                              !.bdim = IF try THEN Len(hd) + 1 ELSE 0]

\* One pass of the loop body of opt_propars_fixed_points_diis.  The history
\* lists keep the entries the code can still read (the last diis_size).  The
\* sum of the coefficients is asserted under log.do_debug only.
DiisIter(in, s) ==
    IF s.irep >= DiisCap THEN Raise(s, "NotConverged")
    ELSE
        LET n == in.diis_size
            shells == Shells(s.propars, in.alphas)
            pro == ClipFloor(SumShells(shells))
            diis_r == IF s.irep = 0 THEN pro
                      ELSE [p \in Points |-> pro[p] - s.oldpro[p]]
            hs == LastN(Append(s.hshells, shells), n)
            hp == LastN(Append(s.hpros, pro), n)
            hd == LastN(Append(s.hdiis, diis_r), n)
            drms2 == Integrate([p \in Points |-> diis_r[p] * diis_r[p]])
        IN  IF in.threshold > 0 /\ drms2 < in.threshold * in.threshold
            THEN IF ~IsClose(Population(in.rho), Sum(s.propars))
                 THEN Raise(s, "AssertionError")
                 ELSE IF ~AllNonNeg(s.propars) THEN Raise(s, "NegPropars")
                 ELSE Return(s, s.propars)
            ELSE
                LET try == ~s.off /\ s.irep >= n
                    sol == Solve(PulayMatrix(hd), PulayRhs(Len(hd)))
                    mix == try /\ sol.den # 0
                    shellsX == IF mix
                               THEN [k \in 1..Len(shells) |->
                                       ClipFloor(Mix(sol, [i \in 1..Len(hs) |->
                                                              hs[i][k]]))]
                               ELSE shells
                    proX == IF mix THEN ClipFloor(Mix(sol, hp)) ELSE pro
                    new == [k \in 1..Len(s.propars) |->
                               IntegrateShareF(shellsX[k], in.rho, proX, mix)]
                    asserted == mix /\ in.do_debug
                IN  IF asserted /\ ~CoeffSumIsOne(sol, Len(hd))
                    THEN Raise(s, "AssertionError")
                    ELSE
                    [s EXCEPT !.propars = new, !.oldpro = proX, !.irep = @ + 1,
                              !.hshells = hs, !.hpros = hp, !.hdiis = hd,
                              !.off = s.off \/ (try /\ sol.den = 0),
                              !.mixed = mix, !.validated = asserted,
                              !.bdim = IF try THEN Len(hd) + 1 ELSE 0]

\* One pass of the loop body of opt_propars_fixed_points_diis2.
Diis2Iter(in, s) ==
    IF s.irep >= DiisCap THEN Raise(s, "NotConverged")
    ELSE
        LET n == in.diis_size
            fun_val == FixedPointMap(s.propars, in.alphas, in.rho)
            diis_r == [k \in 1..Len(fun_val) |-> s.propars[k] - fun_val[k]]
            drms2 == Dot(diis_r, diis_r)
        IN  IF AmpBelow(drms2, in.threshold) THEN Return(s, s.propars)
            ELSE
                LET rec == s.irep >= 1
                    hp == IF rec THEN LastN(Append(s.hpros, fun_val), n)
                          ELSE s.hpros
                    hd == IF rec THEN LastN(Append(s.hdiis, diis_r), n)
                          ELSE s.hdiis
                    try == s.irep >= n + 1
                    sol == Solve(PulayMatrix(hd), PulayRhs(Len(hd)))
                    new == IF try THEN Mix(sol, hp) ELSE fun_val
                    t == [s EXCEPT !.hpros = hp, !.hdiis = hd, !.mixed = try,
                                   !.validated = try /\ sol.den # 0,
                                   !.bdim = IF try THEN Len(hd) + 1 ELSE 0]
                IN  IF try /\ sol.den = 0 THEN Raise(t, "LinAlgError")
                    ELSE IF try /\ ~CoeffSumIsOne(sol, Len(hd))
                    THEN Raise(t, "AssertionError")
                    ELSE IF ~AllNonNeg(new)
                    THEN Raise([t EXCEPT !.propars = new], "NegPropars")
                    ELSE [t EXCEPT !.propars = new, !.irep = @ + 1]

-----------------------------------------------------------------------------
(* Newton iteration.                                                       *)

\* Fixed-point scale of the quotients rho/pro and rho/pro**2.
NewtonScale == 10 * 10

\* One pass of the loop body of opt_propars_fixed_points_newton.
NewtonIter(in, s) ==
    IF s.irep >= NewtonCap THEN Raise(s, "NotConverged")
    ELSE
        LET n == Len(s.propars)
            shells == Shells(s.propars, in.alphas)
            rawpro == SumShells(shells)
            pro == ClipFloor(rawpro)
        IN  IF AnyBelow(shells, 0) THEN Raise(s, "NegShell")
            ELSE IF \E p \in Points : rawpro[p] < 0 THEN Raise(s, "NegProAtom")
            ELSE IF ChangeBelow(s.oldpro, pro, in.threshold)
            THEN Return(s, s.propars)
            ELSE IF \E p \in Points : pro[p] = 0 THEN Raise(s, "LinAlgError")
            ELSE
                LET ratio == [p \in Points |->
                                 DivRound(NewtonScale * in.rho[p], pro[p])]
                    ratio2 == [p \in Points |->
                                  DivRound(NewtonScale * ratio[p], pro[p])]
                    grad == [k \in 1..n |-> [j \in 1..n |->
                                SumTo([p \in Points |->
                                    BsTable[in.alphas[k]][p]
                                    * BsTable[in.alphas[j]][p] * ratio2[p]],
                                    NPts)]]
                    h == [k \in 1..n |->
                            NewtonScale * BsNorm
                            - SumTo([p \in Points |->
                                BsTable[in.alphas[k]][p] * ratio[p]], NPts)]
                    sol == Solve(grad, [k \in 1..n |-> -h[k]])
                IN  IF sol.den = 0 THEN Raise(s, "LinAlgError")
                    ELSE
                        LET new == [k \in 1..n |->
                                       s.propars[k]
                                       + DivRound(NewtonScale * sol.num[k],
                                                  sol.den)]
                        IN  IF ~AllNonNeg(new)
                            THEN Raise([s EXCEPT !.propars = new, !.oldpro = pro],
                                       "NegPropars")
                            ELSE [s EXCEPT !.propars = new, !.oldpro = pro,
                                           !.irep = @ + 1]

-----------------------------------------------------------------------------
(* MBIS: Slater shells with an amplitude N and a width S each.             *)

\* range(2000) of _opt_mbis_propars.
MbisCap == 2000

\* r of the two radial points.
Radii == <<1, 2>>

\* Widths are stored in units of 1/SUnit.
SUnit == 70

\* S**3 * exp(-S * r) / (8 * pi) on the radial points, normalised to BsNorm:
\* a shell of width S has mean radius 3/S, which fixes its shape on two points.
SlaterShape(S) ==
    LET raw == DivRound(2 * BsNorm * S - 3 * BsNorm * SUnit, S)
        first == IF raw < 0 THEN 0 ELSE IF raw > BsNorm THEN BsNorm ELSE raw
    IN  <<first, BsNorm - first>>

MbisN(propars, k) == propars[2 * k - 1]
MbisS(propars, k) == propars[2 * k]

\* np.sum(propars[0::2])
MbisPopulation(propars) ==
    SumTo([k \in 1..(Len(propars) \div 2) |-> MbisN(propars, k)],
          Len(propars) \div 2)

NewMbisRun(propars) ==
    [NewDiisRun(propars) EXCEPT !.hshells = "finite"]

\* One pass of the loop body of _opt_mbis_propars; checked is the outcome of
\* check_pro_atom_parameters.  A width 0/0 is not a number: from then on no
\* change is below the threshold and the parameters stay not-a-number.
MbisIter(in, s, checked) ==
    IF s.irep >= MbisCap
    THEN Return([s EXCEPT !.warned = @ \cup {"MBIS not converged"}], s.propars)
    ELSE IF s.hshells = "nan" THEN [s EXCEPT !.irep = @ + 1]
    ELSE
        LET nshell == Len(s.propars) \div 2
            terms == [k \in 1..nshell |->
                        [p \in Points |->
                            MbisN(s.propars, k)
                            * SlaterShape(MbisS(s.propars, k))[p]]]
            pro == SumShells(terms)
            sick == [p \in Points |-> in.rho[p] <= 0 \/ pro[p] <= 0]
            safe == [p \in Points |-> IF sick[p] THEN 1 ELSE pro[p]]
            den == BsNorm * ProdExcept(safe, 0, NPts)
            num0(k) == SumTo([p \in Points |->
                           IF sick[p] THEN 0
                           ELSE terms[k][p] * in.rho[p]
                                * ProdExcept(safe, p, NPts)], NPts)
            num1(k) == SumTo([p \in Points |->
                           IF sick[p] THEN 0
                           ELSE terms[k][p] * in.rho[p] * Radii[p]
                                * ProdExcept(safe, p, NPts)], NPts)
            nan == \E k \in 1..nshell : num1(k) = 0
            new == [i \in 1..Len(s.propars) |->
                       LET k == (i + 1) \div 2
                       IN  IF i % 2 = 1 THEN DivRound(num0(k), den)
                           ELSE IF num1(k) = 0 THEN 0
                           ELSE DivRound(3 * SUnit * num0(k), num1(k))]
            t == [s EXCEPT !.propars = new, !.oldpro = pro, !.irep = @ + 1,
                           !.hshells = IF nan THEN "nan" ELSE "finite"]
        IN  IF ChangeBelow(s.oldpro, pro, in.threshold)
            THEN IF ~IsClose(Population(in.rho), MbisPopulation(new))
                 THEN Raise(t, "RuntimeWarning")
                 ELSE IF ~checked THEN Raise(t, "CheckFailed")
                 ELSE Return(t, new)
            ELSE t

-----------------------------------------------------------------------------
(* Library optimizers, by their contracts.                                 *)

\* The amplitude vectors of n shells with entries >= 0 that sum to total.
RECURSIVE Simplex(_, _)
Simplex(n, total) ==
    IF n = 0 THEN (IF total = 0 THEN {<<>>} ELSE {})
    ELSE IF n = 1 THEN {<<total>>}
    ELSE UNION {{Append(x, i) : x \in Simplex(n - 1, total - i)} : i \in 0..total}

\* The sign of the slope of f(x) = -integrate(rho * log(pro)) at x when one
\* amplitude unit moves from shell k to shell j (df of F, times the positive
\* product of pro over the points).
LikelihoodSlope(x, alphas, rho, j, k) ==
    LET pro == SumShells(Shells(x, alphas))
        safe == [p \in Points |-> IF pro[p] <= 0 THEN 1 ELSE pro[p]]
    IN  - SumTo([p \in Points |->
                   rho[p] * (BsTable[alphas[j]][p] - BsTable[alphas[k]][p])
                   * ProdExcept(safe, p, NPts)], NPts)

\* x minimises f on {x >= 0, sum(x) = N_a} to within one amplitude unit: no
\* move of one unit between two shells stays on the descending side.
OptimalLikelihood(x, alphas, rho) ==
    /\ Sum(x) = Population(rho)
    /\ AllNonNeg(x)
    /\ \A j, k \in DOMAIN x :
          (j # k /\ x[k] >= 1) =>
              LET y == [x EXCEPT ![j] = @ + 1, ![k] = @ - 1]
              IN  \/ LikelihoodSlope(x, alphas, rho, j, k) >= 0
                  \/ LikelihoodSlope(y, alphas, rho, j, k) > 0

LikelihoodMinima(in) ==
    {x \in Simplex(Len(in.propars), Population(in.rho)) :
        OptimalLikelihood(x, in.alphas, in.rho)}

\* The last iterate of cvxopt.solvers.cp when it stops with status "unknown"
\* (iteration limit, numerical trouble): it need not be feasible.  A sample of
\* such iterates around the feasible set.
CpLastIterates(in) ==
    LET N_a == Population(in.rho)
    IN  {x \in [1..Len(in.propars) -> {-1, 0, N_a}] :
            Sum(x) \in {N_a - 1, N_a, N_a + 1}}

\* `if not (x > 0).all(): log("Not all values are positive!")` and
\* `if np.sum(x) - N_a >= tol: log("The sum of results is not equal to N_a!")`
Warnings(x, N_a) ==
    (IF \E k \in DOMAIN x : x[k] <= 0 THEN {"Not all values are positive!"}
     ELSE {})
    \cup (IF Sum(x) > N_a THEN {"The sum of results is not equal to N_a!"}
          ELSE {})

\* opt_propars_minimization_fast and _slow: whatever cp holds in "x" is
\* returned, its status is not read.
CpOutcomes(in, s) ==
    {Return([s EXCEPT !.warned = Warnings(x, Population(in.rho)),
                      !.hshells = IF x \in LikelihoodMinima(in)
                                  THEN "optimal" ELSE "unknown"], x) :
        x \in LikelihoodMinima(in) \cup CpLastIterates(in)}

\* opt_propars_minimization_trust_constr: bounds (1e-6, 200) and the linear
\* constraint sum(x) = N_a; `if not opt_res.success: raise RuntimeError`.
TrustConstrOutcomes(in, s) ==
    {Return([s EXCEPT !.warned = Warnings(x, Population(in.rho))], x) :
        x \in LikelihoodMinima(in)}
    \cup {Raise(s, "ConvergenceFailure")}

\* sum(f(args)**2) of _constrained_least_squares.
LeastSquaresCost(x, alphas, rho) ==
    LET fit == SumShells(Shells(x, alphas))
    IN  Integrate([p \in Points |-> (fit[p] - rho[p]) * (fit[p] - rho[p])])

\* The least-squares amplitudes when exactly the shells of `free` are off the
\* bound 0 (normal equations, rounded), or <<>> when they are not determined.
LeastSquaresOn(free, alphas, rho) ==
    LET n == Len(alphas)
        idx == [i \in 1..Cardinality(free) |->
                   CHOOSE k \in free : Cardinality({q \in free : q < k}) = i - 1]
        m == Len(idx)
        gram == [a \in 1..m |-> [b \in 1..m |->
                    Dot(BsTable[alphas[idx[a]]], BsTable[alphas[idx[b]]])]]
        rhs == [a \in 1..m |-> Dot(BsTable[alphas[idx[a]]], rho)]
        sol == Solve(gram, rhs)
    IN  IF sol.den = 0 THEN <<>>
        ELSE [k \in 1..n |->
                IF k \in free
                THEN DivRound(sol.num[CHOOSE a \in 1..m : idx[a] = k], sol.den)
                ELSE 0]

\* least_squares(f, x0, bounds=(0, inf)).x: the minimiser of the convex cost
\* over x >= 0 lies where some shells sit on the bound and the rest solve the
\* normal equations.
LeastSquaresMinima(in) ==
    LET n == Len(in.propars)
        cands == {x \in {LeastSquaresOn(free, in.alphas, in.rho) :
                            free \in SUBSET (1..n)} :
                     x # <<>> /\ AllNonNeg(x)}
    IN  {x \in cands : \A y \in cands :
            LeastSquaresCost(x, in.alphas, in.rho)
                <= LeastSquaresCost(y, in.alphas, in.rho)}

LeastSquaresOutcomes(in, s) ==
    {Return(s, x) : x \in LeastSquaresMinima(in)}

-----------------------------------------------------------------------------
(* The solver-call machine: one call of one solver, one loop pass a step.  *)

SolverRhos == {<<120, 40>>, <<80, 80>>, <<40, 120>>, <<160, 0>>, <<200, 120>>}
SolverStarts ==
    {[alphas |-> <<1>>, propars |-> <<20>>],
     [alphas |-> <<1>>, propars |-> <<50>>],
     [alphas |-> <<1, 3>>, propars |-> <<10, 10>>],
     [alphas |-> <<1, 3>>, propars |-> <<40, 20>>],
     [alphas |-> <<2, 3>>, propars |-> <<30, 0>>]}
SolverThresholds == {0, 1, 3}
SolverDiisSizes == {1, 2}
LoopSolvers ==
    {"opt_propars_fixed_points_sc", "opt_propars_fixed_points_plus_lisa1",
     "opt_propars_fixed_points_sc_damping", "opt_propars_fixed_points_newton"}
DiisSolvers ==
    {"opt_propars_fixed_points_diis", "opt_propars_fixed_points_diis2"}

\* The calls with threshold 0 (no change is ever below it) run to the cap.
CapRhos == {<<120, 40>>, <<200, 120>>}
CapStarts == {a \in SolverStarts : a.propars \in {<<20>>, <<10, 10>>}}

SolverInputs ==
    {[rho |-> r, alphas |-> a.alphas, propars |-> a.propars, threshold |-> th] :
        r \in SolverRhos, a \in SolverStarts, th \in SolverThresholds \ {0}}
    \cup
    {[rho |-> r, alphas |-> a.alphas, propars |-> a.propars, threshold |-> 0] :
        r \in CapRhos, a \in CapStarts}

MbisRhos == {<<60, 20>>, <<40, 40>>, <<20, 60>>, <<80, 0>>}
MbisStarts == {<<10, 140>>, <<30, 210>>, <<10, 168, 10, 120>>,
               <<20, 210, 10, 105>>}

MbisCalls ==
    {[fn |-> "_opt_mbis_propars", rho |-> r, alphas |-> <<>>, propars |-> q,
      threshold |-> th, diis_size |-> 0] :
        r \in MbisRhos, q \in MbisStarts, th \in SolverThresholds \ {0}}
    \cup
    {[fn |-> "_opt_mbis_propars", rho |-> <<60, 20>>, alphas |-> <<>>,
      propars |-> q, threshold |-> 0, diis_size |-> 0] :
        q \in {<<10, 140>>, <<10, 168, 10, 120>>}}

\* Calls of the SC solver with a negative warm-start amplitude or a target
\* density that is negative at a point.
ScSignedInputs ==
    {[rho |-> <<120, 40>>, alphas |-> <<1>>, propars |-> <<-10>>,
      threshold |-> 1],
     [rho |-> <<120, 40>>, alphas |-> <<1, 3>>, propars |-> <<30, -10>>,
      threshold |-> 1],
     [rho |-> <<120, -40>>, alphas |-> <<1, 3>>, propars |-> <<10, 10>>,
      threshold |-> 1],
     [rho |-> <<-40, 120>>, alphas |-> <<1>>, propars |-> <<20>>,
      threshold |-> 1]}

\* Calls of the density-space DIIS solver with an all-zero warm start.
DiisZeroStarts ==
    {[rho |-> <<120, 40>>, alphas |-> <<1>>, propars |-> <<0>>,
      threshold |-> 1],
     [rho |-> <<80, 80>>, alphas |-> <<1, 3>>, propars |-> <<0, 0>>,
      threshold |-> 1]}

\* Calls of the density-space DIIS solver whose residuals repeat in one pass
\* and differ again later.
DiisStallInputs ==
    {[rho |-> <<20, 40>>, alphas |-> <<1, 3>>, propars |-> <<40, 5>>,
      threshold |-> 1],
     [rho |-> <<20, 80>>, alphas |-> <<1, 2>>, propars |-> <<20, 10>>,
      threshold |-> 1],
     [rho |-> <<20, 80>>, alphas |-> <<1, 2>>, propars |-> <<40, 20>>,
      threshold |-> 1]}

\* Calls of the DIIS solvers with diis_size = 0.
DiisSizeZeroInputs ==
    {[rho |-> <<120, 40>>, alphas |-> <<1>>, propars |-> <<20>>,
      threshold |-> 3],
     [rho |-> <<80, 80>>, alphas |-> <<1, 3>>, propars |-> <<10, 10>>,
      threshold |-> 3]}

\* Calls of the SC solver for one shell, a target density of one electron
\* (10 amplitude units) and the warm start 0.5.
ScUnitInputs ==
    {[rho |-> r, alphas |-> <<a>>, propars |-> <<5>>, threshold |-> 1] :
        r \in {<<30, 10>>, <<20, 20>>, <<10, 30>>}, a \in 1..3}

\* Calls of the SC solver that are made a second time on their own result.
ScRerunInputs ==
    {[rho |-> <<360, 120>>, alphas |-> <<2, 3>>, propars |-> <<5, 100>>,
      threshold |-> 8],
     [rho |-> <<360, 120>>, alphas |-> <<1, 3>>, propars |-> <<1, 60>>,
      threshold |-> 20],
     [rho |-> <<80, 80>>, alphas |-> <<1, 3>>, propars |-> <<10, 10>>,
      threshold |-> 8],
     [rho |-> <<120, 40>>, alphas |-> <<1>>, propars |-> <<20>>,
      threshold |-> 8]}

OneShotSolvers ==
    {"opt_propars_minimization_fast", "opt_propars_minimization_slow",
     "opt_propars_minimization_trust_constr", "_constrained_least_squares"}

SolverCalls ==
    {[fn |-> f, rho |-> i.rho, alphas |-> i.alphas, propars |-> i.propars,
      threshold |-> i.threshold, diis_size |-> 0] :
        f \in LoopSolvers, i \in SolverInputs}
    \cup
    {[fn |-> "opt_propars_fixed_points_sc", rho |-> i.rho,
      alphas |-> i.alphas, propars |-> i.propars, threshold |-> i.threshold,
      diis_size |-> 0] :
        i \in ScSignedInputs \cup ScUnitInputs \cup ScRerunInputs}
    \cup
    {[fn |-> f, rho |-> i.rho, alphas |-> i.alphas, propars |-> i.propars,
      threshold |-> i.threshold, diis_size |-> d, do_debug |-> b] :
        f \in DiisSolvers, i \in SolverInputs, d \in SolverDiisSizes,
        b \in BOOLEAN}
    \cup
    {[fn |-> "opt_propars_fixed_points_diis", rho |-> i.rho,
      alphas |-> i.alphas, propars |-> i.propars, threshold |-> i.threshold,
      diis_size |-> d, do_debug |-> b] :
        i \in DiisZeroStarts \cup DiisStallInputs, d \in SolverDiisSizes,
        b \in BOOLEAN}
    \cup
    {[fn |-> f, rho |-> i.rho, alphas |-> i.alphas, propars |-> i.propars,
      threshold |-> i.threshold, diis_size |-> 0, do_debug |-> b] :
        f \in DiisSolvers, i \in DiisSizeZeroInputs, b \in BOOLEAN}
    \cup MbisCalls
    \cup
    {[fn |-> f, rho |-> i.rho, alphas |-> i.alphas, propars |-> i.propars,
      threshold |-> i.threshold, diis_size |-> 0] :
        f \in OneShotSolvers, i \in {q \in SolverInputs : q.threshold = 1}}

SolverInit ==
    /\ cfg \in {c \in Cfgs : c.scheme = "lisa" /\ c.solver = PyInt(2)
                             /\ c.basis_func_type = PyStr("gauss")
                             /\ c.diis_size = PyInt(2)
                             /\ ~c.use_global_method}
    /\ obj = NoObj
    /\ cphase = "new"
    /\ coutcome = "none"
    /\ sin \in SolverCalls
    /\ srun = IF sin.fn = "_opt_mbis_propars" THEN NewMbisRun(sin.propars)
              ELSE NewDiisRun(sin.propars)
    /\ part = NoPart

ScStep ==
    /\ sin.fn = "opt_propars_fixed_points_sc" /\ srun.st = "run"
    /\ srun' = ScIter(sin, srun)
    /\ UNCHANGED <<ctorVars, sin, part>>

\* The caller hands the vector opt_propars_fixed_points_sc returned back to
\* it, with the same target density, widths and threshold.
ScSecondCall ==
    /\ sin.fn = "opt_propars_fixed_points_sc" /\ srun.st = "ret"
    /\ part = NoPart
    /\ \E i \in ScRerunInputs :
          sin.rho = i.rho /\ sin.alphas = i.alphas
              /\ sin.propars = i.propars /\ sin.threshold = i.threshold
    /\ part' = [phase |-> "SecondCall", first |-> srun.propars]
    /\ sin' = [sin EXCEPT !.propars = srun.propars]
    /\ srun' = NewDiisRun(srun.propars)
    /\ UNCHANGED ctorVars

FallbackStep ==
    /\ sin.fn = "opt_propars_fixed_points_plus_lisa1" /\ srun.st = "run"
    /\ srun' = FallbackIter(sin, srun)
    /\ UNCHANGED <<ctorVars, sin, part>>

DampingStep ==
    /\ sin.fn = "opt_propars_fixed_points_sc_damping" /\ srun.st = "run"
    /\ srun' = DampingIter(sin, srun)
    /\ UNCHANGED <<ctorVars, sin, part>>

DiisStep ==
    /\ sin.fn = "opt_propars_fixed_points_diis" /\ srun.st = "run"
    /\ srun' = DiisIter(sin, srun)
    /\ UNCHANGED <<ctorVars, sin, part>>

Diis2Step ==
    /\ sin.fn = "opt_propars_fixed_points_diis2" /\ srun.st = "run"
    /\ srun' = Diis2Iter(sin, srun)
    /\ UNCHANGED <<ctorVars, sin, part>>

NewtonStep ==
    /\ sin.fn = "opt_propars_fixed_points_newton" /\ srun.st = "run"
    /\ srun' = NewtonIter(sin, srun)
    /\ UNCHANGED <<ctorVars, sin, part>>

MbisStep ==
    /\ sin.fn = "_opt_mbis_propars" /\ srun.st = "run"
    /\ \E checked \in BOOLEAN : srun' = MbisIter(sin, srun, checked)
    /\ UNCHANGED <<ctorVars, sin, part>>

CpStep ==
    /\ sin.fn \in {"opt_propars_minimization_fast",
                   "opt_propars_minimization_slow"}
    /\ srun.st = "run"
    /\ srun' \in CpOutcomes(sin, srun)
    /\ UNCHANGED <<ctorVars, sin, part>>

TrustConstrStep ==
    /\ sin.fn = "opt_propars_minimization_trust_constr" /\ srun.st = "run"
    /\ srun' \in TrustConstrOutcomes(sin, srun)
    /\ UNCHANGED <<ctorVars, sin, part>>

LeastSquaresStep ==
    /\ sin.fn = "_constrained_least_squares" /\ srun.st = "run"
    /\ srun' \in LeastSquaresOutcomes(sin, srun)
    /\ UNCHANGED <<ctorVars, sin, part>>

SolverNext ==
    \/ ScStep \/ ScSecondCall \/ FallbackStep \/ DampingStep
    \/ DiisStep \/ Diis2Step \/ NewtonStep
    \/ MbisStep
    \/ CpStep \/ TrustConstrStep \/ LeastSquaresStep

SolverSpec == SolverInit /\ [][SolverNext]_vars

-----------------------------------------------------------------------------
(* The partitioning run: _init_propars, _update_propars_atom, outer loop.  *)

\* Amplitude units per electron.
Electron == 10

\* bs_helper.get_nshell, load_exponent and load_initial_propars: the basis
\* table of the species (hydrogen-like: one shell; heavier: two).
get_nshell(number) == IF number <= 2 THEN 1 ELSE 2
load_exponent(number) == IF number <= 2 THEN <<1>> ELSE <<1, 3>>
load_initial_propars(number) ==
    IF number <= 2 THEN <<Electron * number>>
    ELSE <<Electron * (number - 1), Electron>>

noble == <<2, 10, 18, 36, 54, 86, 118>>

\* noble.searchsorted(number) + 1
mbis_get_nshell(number) ==
    Cardinality({i \in 1..Len(noble) : noble[i] < number}) + 1

nel_in_shell == <<2, 8, 8, 18, 18, 32, 32>>

RECURSIVE Pow(_, _)
Pow(x, n) == IF n = 0 THEN 1 ELSE x * Pow(x, n - 1)

\* Fixed-point scale of the root in alpha.
RootScale == 10

\* floor(RootScale * number ** (1 / m)), searched upwards from r.
RECURSIVE ScaledRoot(_, _, _)
ScaledRoot(number, m, r) ==
    IF m = 1 THEN RootScale * number
    ELSE IF Pow(r + 1, m) > number * Pow(RootScale, m) THEN r
    ELSE ScaledRoot(number, m, r + 1)

\* S0 * alpha ** ishell with S0 = 2 * number, S1 = 2 and
\* alpha = (S1 / S0) ** (1 / (nshell - 1)), which is
\* S1 * number ** ((nshell - 1 - ishell) / (nshell - 1)); every product is
\* rounded once, and a single shell has alpha = 1.
RECURSIVE MbisWidth(_, _, _)
MbisWidth(number, nshell, ishell) ==
    IF nshell = 1 THEN 2 * number * SUnit
    ELSE IF ishell = nshell - 1 THEN 2 * SUnit
    ELSE DivRound(MbisWidth(number, nshell, ishell + 1)
                      * ScaledRoot(number, nshell - 1, 0), RootScale)

\* _get_initial_mbis_propars without its last assignment: every shell keeps
\* the full count of nel_in_shell.
get_initial_mbis_propars_full_shells(number) ==
    LET nshell == mbis_get_nshell(number)
    IN  [i \in 1..(2 * nshell) |->
            IF i % 2 = 1 THEN Electron * nel_in_shell[(i + 1) \div 2]
            ELSE MbisWidth(number, nshell, (i \div 2) - 1)]

\* _get_initial_mbis_propars: interleaved (amplitude, width) of the shells;
\* propars[-2] = number - propars[:-2:2].sum() is the last amplitude.
get_initial_mbis_propars(number) ==
    LET nshell == mbis_get_nshell(number)
        inner == SumTo([k \in 1..(nshell - 1) |-> Electron * nel_in_shell[k]],
                       nshell - 1)
    IN  [i \in 1..(2 * nshell) |->
            IF i = 2 * nshell - 1 THEN Electron * number - inner
            ELSE IF i % 2 = 1 THEN Electron * nel_in_shell[(i + 1) \div 2]
            ELSE MbisWidth(number, nshell, (i \div 2) - 1)]

\* A running sum that counts every shell once, whatever the scheme.
RangesOfIgnoringStep(nshells, step) ==
    [i \in 1..(Len(nshells) + 1) |-> SumTo(nshells, i - 1)]

\* self._ranges after the loop of _init_propars: [0], then the running sum
\* of step * nshell.
RECURSIVE RangesOf(_, _)
RangesOf(nshells, step) ==
    IF Len(nshells) = 0 THEN <<0>>
    ELSE LET head == RangesOf(SubSeq(nshells, 1, Len(nshells) - 1), step)
         IN  Append(head, head[Len(head)] + step * nshells[Len(nshells)])

RECURSIVE Concat(_)
Concat(seqs) ==
    IF Len(seqs) = 0 THEN <<>> ELSE seqs[1] \o Concat(Tail(seqs))

\* GaussianIterativeStockholderWPart._init_propars
GisaInitPropars(numbers) ==
    LET nshells == [i \in 1..Len(numbers) |-> get_nshell(numbers[i])]
    IN  [ranges |-> RangesOf(nshells, 1), nshells |-> nshells,
         propars |-> Concat([i \in 1..Len(numbers) |->
                                load_initial_propars(numbers[i])])]

\* MBISWPart._init_propars
MbisInitPropars(numbers) ==
    LET nshells == [i \in 1..Len(numbers) |-> mbis_get_nshell(numbers[i])]
    IN  [ranges |-> RangesOf(nshells, 2), nshells |-> nshells,
         propars |-> Concat([i \in 1..Len(numbers) |->
                                get_initial_mbis_propars(numbers[i])])]

\* propars[self._ranges[iatom] : self._ranges[iatom + 1]]
Slice(q, iatom) ==
    SubSeq(q.propars, q.ranges[iatom] + 1, q.ranges[iatom + 1])

\* The pro-atom density of one atom on its own radial points.
ProAtom(q, iatom) ==
    LET sl == Slice(q, iatom)
    IN  IF q.scheme = "mbis"
        THEN SumShells([k \in 1..(Len(sl) \div 2) |->
                          [p \in Points |->
                              MbisN(sl, k) * SlaterShape(MbisS(sl, k))[p]]])
        ELSE SumShells(Shells(sl, load_exponent(q.numbers[iatom])))

\* update_at_weights, then spherical_average(at_weights * dens): the share of
\* the atom in the pro-molecule.  The inner point of an atom is reached by its
\* own pro-atom only, its outer point by the outer tail of every atom.
SphericalAverage(q, iatom) ==
    LET own == q.wpro[iatom]
        total == [p \in Points |->
                     IF p = 1 THEN own[1]
                     ELSE SumTo([b \in 1..Len(q.numbers) |-> q.wpro[b][2]],
                                Len(q.numbers))]
    IN  [p \in Points |->
            IF total[p] <= 0 THEN 0
            ELSE DivRound(q.dens[iatom][p] * own[p], total[p])]

\* A solver run to its end.
RECURSIVE RunMbis(_, _, _)
RunMbis(in, s, checked) ==
    IF s.st # "run" THEN s ELSE RunMbis(in, MbisIter(in, s, checked), checked)

\* The constrained least-squares fit of _constrained_least_squares_quadprog
\* and _constrained_least_cvxopt: sum(c) = N_a and c >= 0 are constraints.
QpMinima(in) ==
    LET feas == Simplex(Len(in.propars), Population(in.rho))
    IN  {x \in feas : \A y \in feas :
            LeastSquaresCost(x, in.alphas, in.rho)
                <= LeastSquaresCost(y, in.alphas, in.rho)}

\* The parameters _solver_comparison is declared with in both modules, and
\* those GISA's _opt_propars calls it with.
ComparisonParams == <<"rho", "propars", "rgrid", "alphas", "threshold">>
ComparisonArgs ==
    <<"self.bs_helper", "rho", "propars", "rgrid", "alphas", "threshold">>

\* LISA's _opt_propars calls _solver_comparison with its five parameters; its
\* first statement calls opt_propars_minimization_fast with these.
LisaComparisonFirstCall == <<"rho", "propars", "rgrid", "alphas", "threshold">>

\* self._opt_propars of GISA, and _opt_mbis_propars of MBIS: the outcomes of
\* the call made by _update_propars_atom.  An object of the LISA class holds
\* the basis function type in self._solver, so its _opt_propars takes the
\* NotImplementedError branch and the last branch below is never taken.
OptOutcomes(q, in) ==
    LET s0 == NewDiisRun(in.propars)
        fn == IF q.scheme = "lisa" THEN LisaOptPropars(q.solver)
              ELSE GisaOptPropars(q.solver)
    IN  IF q.scheme = "mbis"
        THEN {RunMbis(in, NewMbisRun(in.propars), c) : c \in BOOLEAN}
        ELSE IF fn = "NotImplementedError" THEN {Raise(s0, fn)}
        ELSE IF fn = "_solver_comparison"
        THEN {IF q.scheme = "lisa"
              THEN (IF Len(LisaComparisonFirstCall) < Len(MinFastRequired)
                    THEN Raise(s0, "TypeError")
                    ELSE Raise(s0, "AssertionError"))
              ELSE (IF Len(ComparisonArgs) # Len(ComparisonParams)
                    THEN Raise(s0, "TypeError")
                    ELSE Raise(s0, "AssertionError"))}
        ELSE IF fn = "_constrained_least_squares"
        THEN LeastSquaresOutcomes(in, s0)
        ELSE IF fn \in {"_constrained_least_squares_quadprog",
                        "_constrained_least_cvxopt"}
        THEN {Return(s0, x) : x \in QpMinima(in)}
        ELSE {Raise(s0, "Unreachable")}

\* The cache entries MBISWPart._update_propars_atom dumps before it calls the
\* solver: radial_points_i, spherical_average_i and radial_weights_i.
MbisDump(q, iatom) ==
    IF q.scheme # "mbis" THEN q.dumped
    ELSE {t \in q.dumped : t[2] # iatom}
         \cup {<<"radial_points", iatom, Radii>>,
                <<"spherical_average", iatom, SphericalAverage(q, iatom)>>,
                <<"radial_weights", iatom, [p \in Points |-> 1]>>}

\* _update_propars_atom with the solver handed the cached slice itself, not a
\* copy of it: a solver that raises leaves its last iterate in the cache.
UpdateProparsAtomInPlace(q, iatom, res) ==
    LET avg == SphericalAverage(q, iatom)
        lo == q.ranges[iatom]
        hi == q.ranges[iatom + 1]
        written == [i \in 1..Len(q.propars) |->
                       IF i > lo /\ i <= hi THEN res.propars[i - lo]
                       ELSE q.propars[i]]
    IN  IF res.st = "raise"
        THEN [q EXCEPT !.phase = "Failed", !.err = res.err,
                       !.dumped = MbisDump(q, iatom),
                       !.propars = written]
        ELSE [q EXCEPT
                !.propars = written,
                !.charges[iatom] =
                    Electron * q.pseudo_numbers[iatom] - Population(avg),
                !.last = [iatom |-> iatom, returned |-> res.propars,
                          irep |-> res.irep],
                !.dumped = MbisDump(q, iatom),
                !.iatom = iatom + 1]

\* _update_propars_atom that also refreshes the atom's pro-atom in the weights
\* of the step, so that the atoms updated after it see its new amplitudes.
UpdateProparsAtomRefreshingWeights(q, iatom, res) ==
    LET avg == SphericalAverage(q, iatom)
        lo == q.ranges[iatom]
        hi == q.ranges[iatom + 1]
        written == [q EXCEPT !.propars =
                       [i \in 1..Len(q.propars) |->
                           IF i > lo /\ i <= hi THEN res.propars[i - lo]
                           ELSE q.propars[i]]]
    IN  IF res.st = "raise"
        THEN [q EXCEPT !.phase = "Failed", !.err = res.err,
                       !.dumped = MbisDump(q, iatom)]
        ELSE [written EXCEPT
                !.wpro[iatom] = ProAtom(written, iatom),
                !.charges[iatom] =
                    Electron * q.pseudo_numbers[iatom] - Population(avg),
                !.last = [iatom |-> iatom, returned |-> res.propars,
                          irep |-> res.irep],
                !.dumped = MbisDump(q, iatom),
                !.iatom = iatom + 1]

\* _update_propars_atom: the atom's slice and charge after the call, or the
\* error that left them as they were.
UpdateProparsAtom(q, iatom, res) ==
    LET avg == SphericalAverage(q, iatom)
        lo == q.ranges[iatom]
        hi == q.ranges[iatom + 1]
    IN  IF res.st = "raise"
        THEN [q EXCEPT !.phase = "Failed", !.err = res.err,
                       !.dumped = MbisDump(q, iatom)]
        ELSE [q EXCEPT
                !.propars = [i \in 1..Len(q.propars) |->
                                IF i > lo /\ i <= hi THEN res.propars[i - lo]
                                ELSE q.propars[i]],
                !.charges[iatom] =
                    Electron * q.pseudo_numbers[iatom] - Population(avg),
                !.last = [iatom |-> iatom, returned |-> res.propars,
                          irep |-> res.irep],
                !.dumped = MbisDump(q, iatom),
                !.iatom = iatom + 1]

\* The arguments _update_propars_atom hands to the solver.
OptCall(q, iatom) ==
    [fn |-> "", rho |-> SphericalAverage(q, iatom),
     alphas |-> IF q.scheme = "mbis" THEN <<>>
                ELSE load_exponent(q.numbers[iatom]),
     propars |-> Slice(q, iatom), threshold |-> q.inner_threshold,
     diis_size |-> 0]

MaxAbs(x, y) ==
    LET d == {Abs(x[i] - y[i]) : i \in DOMAIN x}
    IN  CHOOSE m \in d : \A e \in d : e <= m

\* An outer step that never looks at the charge change.
EndOuterStepIgnoringChange(q) ==
    [q EXCEPT !.counter = @ + 1, !.change = MaxAbs(q.charges, q.old_charges),
              !.old_charges = q.charges, !.iatom = 1,
              !.phase = IF q.counter + 1 >= q.maxiter THEN "MaxIterReached"
                        ELSE "Iterating"]

\* The end of one outer step: the weights are recomputed from the new
\* pro-atoms and the step's charge change decides how the loop goes on.
EndOuterStep(q) ==
    LET counter == q.counter + 1
        change == MaxAbs(q.charges, q.old_charges)
        r == [q EXCEPT !.counter = counter, !.change = change,
                       !.wpro = [a \in 1..Len(q.numbers) |-> ProAtom(q, a)],
                       !.old_charges = q.charges, !.iatom = 1]
    IN  IF change < q.threshold THEN [r EXCEPT !.phase = "Converged"]
        ELSE IF counter >= q.maxiter THEN [r EXCEPT !.phase = "MaxIterReached"]
        ELSE r

Molecules ==
    {[numbers |-> <<1>>, pseudo_numbers |-> <<1>>, dens |-> <<d>>] :
        d \in {<<30, 10>>, <<20, 20>>}}
    \cup
    {[numbers |-> <<3, 1>>, pseudo_numbers |-> <<3, 1>>, dens |-> <<d, e>>] :
        d \in {<<60, 60>>, <<90, 30>>}, e \in {<<30, 10>>, <<10, 30>>}}

OuterThresholds == {1, 4}
OuterMaxiters == {1, 3}
OuterInnerThresholds == {1}

OuterCfgs ==
    {c \in Cfgs : /\ c.basis_func_type = PyStr("gauss")
                  /\ c.diis_size = PyInt(8)
                  /\ ~c.use_global_method
                  /\ \/ c.scheme = "gisa" /\ c.solver \in {PyInt(t) : t \in {0, 1, 2, 5}}
                     \/ c.scheme = "lisa" /\ c.solver \in {PyInt(0), PyInt(2)}}
    \cup {[c EXCEPT !.scheme = "mbis"] :
            c \in {d \in Cfgs : /\ d.scheme = "gisa" /\ d.solver = PyInt(1)
                                /\ d.basis_func_type = PyStr("gauss")
                                /\ d.diis_size = PyInt(8)
                                /\ ~d.use_global_method}}

Built(c) ==
    IF c.scheme = "lisa" THEN LisaInit(c)
    ELSE [GisaInitKw(c) EXCEPT !.scheme = c.scheme]

\* A LISA object dispatches on its basis_func_type argument: the objects
\* built for tag 0 include the one that was handed 0 there as well.
OuterInit ==
    /\ cfg \in OuterCfgs
    /\ \E f \in {cfg.basis_func_type}
                \cup (IF cfg.scheme = "lisa" /\ cfg.solver = PyInt(0)
                      THEN {PyInt(0)} ELSE {}) :
          obj = Built([cfg EXCEPT !.basis_func_type = f])
    /\ cphase = "built"
    /\ coutcome = "none"
    /\ sin = NoCall
    /\ srun = NoRun
    /\ \E m \in Molecules, th \in OuterThresholds, mi \in OuterMaxiters,
          ith \in OuterInnerThresholds :
          part = [phase |-> "Initializing", scheme |-> obj.scheme,
                  solver |-> obj.solver, numbers |-> m.numbers,
                  pseudo_numbers |-> m.pseudo_numbers, dens |-> m.dens,
                  threshold |-> th, maxiter |-> mi, inner_threshold |-> ith,
                  ranges |-> <<>>, nshells |-> <<>>, propars |-> <<>>,
                  charges |-> <<>>, old_charges |-> <<>>, wpro |-> <<>>,
                  counter |-> 0, change |-> -1, iatom |-> 0, err |-> "none",
                  last |-> [iatom |-> 0, returned |-> <<>>, irep |-> 0],
                  dumped |-> {}]

\* do_partitioning up to the loop: _init_propars, the charges allocated.
InitPropars ==
    /\ part.phase = "Initializing"
    /\ LET init == IF part.scheme = "mbis" THEN MbisInitPropars(part.numbers)
                   ELSE GisaInitPropars(part.numbers)
           q == [part EXCEPT !.ranges = init.ranges, !.nshells = init.nshells,
                             !.propars = init.propars]
           zeros == [a \in 1..Len(part.numbers) |-> 0]
       IN  part' = [q EXCEPT !.phase = "Iterating", !.iatom = 1,
                             !.charges = zeros, !.old_charges = zeros,
                             !.wpro = [a \in 1..Len(part.numbers) |->
                                          ProAtom(q, a)]]
    /\ UNCHANGED <<ctorVars, solverVars>>

UpdateAtom ==
    /\ part.phase = "Iterating"
    /\ part.iatom <= Len(part.numbers)
    /\ \E res \in OptOutcomes(part, OptCall(part, part.iatom)) :
          part' = UpdateProparsAtom(part, part.iatom, res)
    /\ UNCHANGED <<ctorVars, solverVars>>

OuterStepEnd ==
    /\ part.phase = "Iterating"
    /\ part.iatom > Len(part.numbers)
    /\ part' = EndOuterStep(part)
    /\ UNCHANGED <<ctorVars, solverVars>>

OuterNext == InitPropars \/ UpdateAtom \/ OuterStepEnd

OuterSpec == OuterInit /\ [][OuterNext]_vars

-----------------------------------------------------------------------------
(* The joint fixed-point loop of the global method.                        *)

\* The molecular grid of the global method: the inner point of every atom,
\* then the one outer point the atoms share.
MolPoints(q) == 1..(Len(q.numbers) + 1)

\* proshells[(a, k)] on the molecular grid: zero off the atom's local grid.
ProShellAt(q, a, k, pt) ==
    LET g == BsTable[load_exponent(q.numbers[a])[k]]
    IN  IF pt = a THEN g[1]
        ELSE IF pt = Len(q.numbers) + 1 THEN g[2]
        ELSE 0

\* self._moldens on the molecular grid.
MolDens(q, pt) ==
    IF pt = Len(q.numbers) + 1 THEN q.dens[1][2] ELSE q.dens[pt][1]

\* compute_promol_dens(propars): einsum over all shells, clipped at 1e-100.
compute_promol_dens(q, propars) ==
    [pt \in MolPoints(q) |->
        LET terms == [a \in 1..Len(q.numbers) |->
                         SumTo([k \in 1..q.nshells[a] |->
                                   propars[q.ranges[a] + k]
                                   * ProShellAt(q, a, k, pt)], q.nshells[a])]
            v == SumTo(terms, Len(q.numbers))
        IN  IF v < 0 THEN 0 ELSE v]

\* change = sqrt(grid.integrate((rho0 - old_rho0) ** 2)), squared.
MolChange2(q, rho0, old_rho0) ==
    SumTo([pt \in MolPoints(q) |->
              (rho0[pt] - old_rho0[pt]) * (rho0[pt] - old_rho0[pt])],
          Len(q.numbers) + 1)

\* `counter % 10 == 0` is all the loop reads of its counter.
PrintEvery == 10

\* One pass of the `while True` body of _update_propars_lisa2_globally.
Lisa2GlobalIter(q) ==
    LET old_rho0 == compute_promol_dens(q, q.propars)
        mid == Len(q.numbers) + 1
        atomOf(i) == CHOOSE a \in 1..Len(q.numbers) :
                        q.ranges[a] < i /\ i <= q.ranges[a + 1]
        new == [i \in 1..Len(q.propars) |->
                   LET a == atomOf(i)
                       k == i - q.ranges[a]
                   IN  IntegrateShare(
                           [p \in Points |->
                               q.propars[i]
                               * ProShellAt(q, a, k, IF p = 1 THEN a ELSE mid)],
                           [p \in Points |->
                               MolDens(q, IF p = 1 THEN a ELSE mid)],
                           [p \in Points |->
                               old_rho0[IF p = 1 THEN a ELSE mid]])]
        rho0 == compute_promol_dens(q, new)
        change2 == MolChange2(q, rho0, old_rho0)
    IN  IF q.threshold > 0 /\ change2 < q.threshold * q.threshold
        THEN [q EXCEPT !.propars = new, !.phase = "GlobalReturned"]
        ELSE [q EXCEPT !.propars = new,
                       !.counter = (q.counter + 1) % PrintEvery]

GlobalMolecules ==
    {[numbers |-> <<1>>, pseudo_numbers |-> <<1>>, dens |-> <<d>>] :
        d \in {<<30, 10>>, <<20, 20>>}}
    \cup
    {[numbers |-> <<3, 1>>, pseudo_numbers |-> <<3, 1>>,
      dens |-> <<<<d, m>>, <<e, m>>>>] :
        d \in {60, 90}, e \in {10, 30}, m \in {20, 40}}

GlobalThresholds == {0, 1, 4}

\* The results of the joint minimization are sampled on multiples of this.
GlobalCpGrain == 5

GlobalInit ==
    /\ cfg \in {c \in Cfgs : /\ c.scheme = "lisa" /\ c.solver = PyInt(2)
                             /\ c.basis_func_type = PyStr("gauss")
                             /\ c.diis_size = PyInt(8)
                             /\ c.use_global_method}
    /\ \E f \in {cfg.basis_func_type, PyInt(1), PyInt(2)} :
          obj = LisaInit([cfg EXCEPT !.basis_func_type = f])
    /\ cphase = "built"
    /\ coutcome = "none"
    /\ sin = NoCall
    /\ srun = NoRun
    /\ \E m \in GlobalMolecules, th \in GlobalThresholds :
          part = [phase |-> "Initializing", scheme |-> obj.scheme,
                  solver |-> obj.solver, numbers |-> m.numbers,
                  pseudo_numbers |-> m.pseudo_numbers, dens |-> m.dens,
                  threshold |-> th, maxiter |-> 1, inner_threshold |-> 1,
                  ranges |-> <<>>, nshells |-> <<>>, propars |-> <<>>,
                  charges |-> <<>>, old_charges |-> <<>>, wpro |-> <<>>,
                  counter |-> 0, change |-> -1, iatom |-> 0, err |-> "none",
                  last |-> [iatom |-> 0, returned |-> <<>>, irep |-> 0],
                  new_propars |-> <<>>, weighted_from |-> <<>>]

\* _init_propars, then the dispatch on self._solver: the joint loop is entered
\* when self._solver == 2 and the joint minimization when self._solver == 1,
\* which the constructor leaves true only for an object built with
\* basis_func_type = 2 or 1.
GlobalEnter ==
    /\ part.phase = "Initializing"
    /\ LET init == GisaInitPropars(part.numbers)
           q == [part EXCEPT !.ranges = init.ranges,
                             !.nshells = init.nshells,
                             !.propars = init.propars]
           fn == GlobalDispatch(obj.solver)
       IN  part' = IF fn = "_update_propars_lisa2_globally"
                   THEN [q EXCEPT !.phase = "GlobalLoop"]
                   ELSE IF fn = "_update_propars_lisa1_globally"
                   THEN [q EXCEPT !.phase = "GlobalCp"]
                   ELSE [q EXCEPT !.phase = "Failed", !.err = fn]
    /\ UNCHANGED <<ctorVars, solverVars>>

\* The loop works on the cached vector and returns it.
Lisa2GlobalStep ==
    /\ part.phase = "GlobalLoop"
    /\ LET r == Lisa2GlobalIter(part)
       IN  part' = IF r.phase = "GlobalReturned"
                   THEN [r EXCEPT !.new_propars = r.propars] ELSE r
    /\ UNCHANGED <<ctorVars, solverVars>>

\* N_mol = self.grid.integrate(rho)
MolPopulation(q) ==
    DivRound(SumTo([pt \in MolPoints(q) |-> MolDens(q, pt)],
                   Len(q.numbers) + 1), BsNorm)

\* _update_propars_lisa1_globally: what cvxopt.solvers.cp hands back under the
\* constraints it is given, x >= 0 and sum(x) = N_mol, in a vector of its
\* own; the cached propars are only read.
Lisa1GlobalOutcomes(q) ==
    {x \in Simplex(Len(q.propars), MolPopulation(q)) :
        \A i \in 1..(Len(x) - 1) : x[i] % GlobalCpGrain = 0}

Lisa1GlobalStep ==
    /\ part.phase = "GlobalCp"
    /\ \E x \in Lisa1GlobalOutcomes(part) :
          part' = [part EXCEPT !.new_propars = x, !.phase = "GlobalReturned"]
    /\ UNCHANGED <<ctorVars, solverVars>>

\* do_partitioning going on to the weights with the cached vector as the
\* solver left it.
KeepCachedPropars(q) == [q EXCEPT !.phase = "Stored"]

\* propars = self.cache.load("propars"); propars[:] = new_propars
StoreGlobalPropars(q) ==
    [q EXCEPT !.propars = q.new_propars, !.phase = "Stored"]

GlobalStore ==
    /\ part.phase = "GlobalReturned"
    /\ part' = StoreGlobalPropars(part)
    /\ UNCHANGED <<ctorVars, solverVars>>

\* self.update_at_weights(): the weights of every atom from the pro-atoms of
\* the cached propars.
GlobalUpdateWeights ==
    /\ part.phase = "Stored"
    /\ part' = [part EXCEPT
                   !.wpro = [a \in 1..Len(part.numbers) |-> ProAtom(part, a)],
                   !.weighted_from = part.propars,
                   !.charges = [a \in 1..Len(part.numbers) |-> 0],
                   !.iatom = 1, !.phase = "Charges"]
    /\ UNCHANGED <<ctorVars, solverVars>>

\* One pass of the charge loop that ends do_partitioning.
GlobalCharge ==
    /\ part.phase = "Charges"
    /\ LET a == part.iatom
           avg == SphericalAverage(part, a)
       IN  part' = [part EXCEPT
                       !.charges[a] =
                           Electron * part.pseudo_numbers[a] - Population(avg),
                       !.iatom = a + 1,
                       !.phase = IF a = Len(part.numbers) THEN "Done"
                                 ELSE "Charges"]
    /\ UNCHANGED <<ctorVars, solverVars>>

GlobalNext ==
    \/ GlobalEnter
    \/ Lisa2GlobalStep
    \/ Lisa1GlobalStep
    \/ GlobalStore
    \/ GlobalUpdateWeights
    \/ GlobalCharge

GlobalSpec == GlobalInit /\ [][GlobalNext]_vars

\* The loop is run by one thread that always goes on to its next pass.
GlobalFairSpec == GlobalSpec /\ WF_vars(GlobalNext)

-----------------------------------------------------------------------------
(* The partition_density script: keyword arguments of the constructors.    *)

\* The parameters of the two constructors, in order, after self.
CtorRequired ==
    <<"coordinates", "numbers", "pseudo_numbers", "grid", "moldens">>
GisaCtorParams == CtorRequired \o <<"spindens">> \o GisaParams
LisaCtorParams ==
    CtorRequired \o
    <<"spindens", "lmax", "threshold", "maxiter", "inner_threshold", "solver",
      "diis_size", "basis_func_type", "use_global_method">>

Names(params) == {params[i] : i \in 1..Len(params)}

\* kwargs of main(): the keywords it passes to wpart_schemes(args.type).
ScriptKwargs(args) ==
    Names(CtorRequired)
    \cup {"lmax", "maxiter", "threshold", "local_grid_radius"}
    \cup (IF args.type \in {"gisa", "lisa"} THEN {"solver"} ELSE {})
    \cup (IF args.type = "lisa"
          THEN {"basis_func_type", "basis_func_json_file",
                "use_global_method"}
          ELSE {})
    \cup (IF args.type = "lisa" /\ args.solver[2] > 200 THEN {"diis_size"}
          ELSE {})

\* A call f(**kwargs) of a function without a **kwargs parameter: the
\* keywords that are none of its parameters make it a TypeError, and so do
\* the required parameters left without a value.
UnexpectedKeywords(params, kwargs) == kwargs \ Names(params)
MissingArguments(kwargs) == Names(CtorRequired) \ kwargs

\* The command lines of the script.
ScriptArgs ==
    [type : {"gisa", "lisa"},
     lmax : {PyInt(3)},
     threshold : {PyStr("1e-6")},
     maxiter : {PyInt(500)},
     inner_threshold : {PyStr("1e-8")},
     local_grid_radius : {PyStr("inf"), PyStr("8.0")},
     solver : {PyInt(t) : t \in {1, 2, 101, 201, 202, 206}},
     basis_func_type : {PyStr(f) : f \in CfgFuncTypes},
     diis_size : {PyInt(d) : d \in CfgDiisSizes},
     use_global_method : BOOLEAN]

\* The arrays main() reads from the input file, and other names an .npz file
\* can hold: a results file of an earlier run holds all of them.
InputRequired == {"atnums", "atcorenums", "density"}
InputOptional == {"charges", "niter", "solver"}

\* np.load(args.filename): a mapping from the names in the file to arrays.
InputFiles ==
    {[k \in InputRequired \cup extra |-> <<"input", k>>] :
        extra \in SUBSET InputOptional}

ScriptInit ==
    /\ cfg \in ScriptArgs
    /\ obj = NoObj
    /\ cphase = "new"
    /\ coutcome = "none"
    /\ sin = NoCall
    /\ srun = NoRun
    /\ \E data \in InputFiles :
          part = [phase |-> "loaded", data |-> data, cache |-> <<>>,
                  saved |-> <<>>]

\* part = wpart_schemes(args.type)(**kwargs)
ScriptConstruct ==
    /\ cphase = "new"
    /\ LET kwargs == ScriptKwargs(cfg)
           params == IF cfg.type = "lisa" THEN LisaCtorParams
                     ELSE GisaCtorParams
           given(c, name, default) ==
               IF name \in kwargs THEN c[name] ELSE default
       IN  IF UnexpectedKeywords(params, kwargs) # {}
              \/ MissingArguments(kwargs) # {}
           THEN /\ coutcome' = "TypeError"
                /\ cphase' = "failed"
                /\ obj' = obj
           ELSE /\ coutcome' = "none"
                /\ cphase' = "built"
                /\ obj' =
                     IF cfg.type = "lisa"
                     THEN LisaInit(
                            [cfg EXCEPT
                               !.inner_threshold = GisaDefaults.inner_threshold,
                               !.diis_size =
                                   given(cfg, "diis_size", PyInt(8))])
                     ELSE GisaInit(
                            [GisaDefaults EXCEPT
                               !.lmax = cfg.lmax,
                               !.threshold = cfg.threshold,
                               !.maxiter = cfg.maxiter,
                               !.local_grid_radius = cfg.local_grid_radius,
                               !.solver = cfg.solver])
    /\ UNCHANGED <<cfg, solverVars, part>>

\* `not (args.type in ["lisa"] and args.use_global_method)`
WithHistories(args) == ~(args.type = "lisa" /\ args.use_global_method)

CacheResults(args) ==
    {"charges"} \cup (IF WithHistories(args)
                      THEN {"niter", "history_charges", "history_propars",
                            "history_entropies"}
                      ELSE {})

\* part.do_partitioning(): the run leaves its results in part.cache, or ends
\* in the error of the dispatch.
ScriptPartition ==
    /\ cphase = "built" /\ part.phase = "loaded"
    /\ LET fn == IF obj.scheme = "lisa" THEN LisaOptPropars(obj.solver)
                 ELSE GisaOptPropars(obj.solver)
       IN  part' = IF fn = "NotImplementedError"
                   THEN [part EXCEPT !.phase = "failed"]
                   ELSE [part EXCEPT
                           !.phase = "partitioned",
                           !.cache = [k \in CacheResults(cfg) |->
                                         <<"computed", k>>]]
    /\ UNCHANGED <<ctorVars, solverVars>>

\* dict.update: every key of `other` is set, a key already there included.
DictUpdate(d, other) ==
    [k \in DOMAIN d \cup DOMAIN other |->
        IF k \in DOMAIN other THEN other[k] ELSE d[k]]

\* part_data as main() fills it before the input arrays are merged in.
PartData(args, data, cache) ==
    LET fromArgs == {"type", "lmax", "maxiter", "threshold", "solver"}
        fromData == {"atnums", "atcorenums"}
    IN  [k \in {"natom"} \cup fromData \cup fromArgs \cup DOMAIN cache |->
            IF k = "natom" THEN <<"computed", k>>
            ELSE IF k \in fromData THEN data[k]
            ELSE IF k \in fromArgs THEN <<"args", k>>
            ELSE cache[k]]

\* The end of main(): part_data.update(data), np.savez_compressed.
ScriptSave ==
    /\ part.phase = "partitioned"
    /\ part' = [part EXCEPT
                   !.phase = "saved",
                   !.saved = DictUpdate(PartData(cfg, part.data, part.cache),
                                        part.data)]
    /\ UNCHANGED <<ctorVars, solverVars>>

ScriptNext == ScriptConstruct \/ ScriptPartition \/ ScriptSave

ScriptSpec == ScriptInit /\ [][ScriptNext]_vars

-----------------------------------------------------------------------------
(* The global method: the Hessian of _working_matrix.                      *)

\* `np.linalg.norm(centers[i] - centers[j]) > 16`
HessCutoff == 16

\* The atom that owns each shell, in the order eval_proshells numbers them.
ShellOwners(numbers) ==
    Concat([a \in 1..Len(numbers) |->
               [k \in 1..get_nshell(numbers[a]) |-> a]])

\* proshell_centers after eval_proshells: one row per shell, allocated as
\* zeros, and `centers[a] = self.coordinates[a, :]` for every atom index a.
ProshellCenters(numbers, coordinates) ==
    [i \in 1..Len(ShellOwners(numbers)) |->
        IF i <= Len(numbers) THEN coordinates[i] ELSE 0]

\* The Hessian of _working_matrix(nderiv=2): which elements are set to zero
\* and which are integrated; the loop fills j >= i and mirrors it.
WorkingMatrixHess(centers) ==
    [i \in 1..Len(centers) |->
        [j \in 1..Len(centers) |->
            IF Abs(centers[i] - centers[j]) > HessCutoff THEN "zero"
            ELSE "integrated"]]

\* Molecules on a line: atomic numbers and the coordinate of each atom.
HessMolecules ==
    UNION {[numbers : [1..n -> {1, 3}], coordinates : [1..n -> {0, 10, 20}]] :
             n \in 2..3}

HessInit ==
    /\ cfg \in {c \in Cfgs : /\ c.scheme = "lisa" /\ c.solver = PyInt(1)
                             /\ c.basis_func_type = PyStr("gauss")
                             /\ c.diis_size = PyInt(8)
                             /\ c.use_global_method}
    /\ obj = LisaInit(cfg)
    /\ cphase = "built"
    /\ coutcome = "none"
    /\ sin = NoCall
    /\ srun = NoRun
    /\ \E m \in HessMolecules :
          part = [phase |-> "HessInit", numbers |-> m.numbers,
                  coordinates |-> m.coordinates, centers |-> <<>>,
                  hess |-> <<>>]

\* eval_proshells
EvalProshells ==
    /\ part.phase = "HessInit"
    /\ part' = [part EXCEPT
                  !.phase = "ProshellsCached",
                  !.centers = ProshellCenters(part.numbers, part.coordinates)]
    /\ UNCHANGED <<ctorVars, solverVars>>

\* _working_matrix(rho, rho0, x, 2)
WorkingMatrix ==
    /\ part.phase = "ProshellsCached"
    /\ part' = [part EXCEPT !.phase = "HessBuilt",
                            !.hess = WorkingMatrixHess(part.centers)]
    /\ UNCHANGED <<ctorVars, solverVars>>

HessNext == EvalProshells \/ WorkingMatrix

HessSpec == HessInit /\ [][HessNext]_vars

-----------------------------------------------------------------------------
(* The per-atom updates of one outer step, called in any order.            *)

OrderMolecules ==
    {m \in Molecules : Len(m.numbers) > 1}
    \cup
    {[numbers |-> <<3, 1, 1>>, pseudo_numbers |-> <<3, 1, 1>>,
      dens |-> <<d, e, f>>] :
        d \in {<<60, 60>>, <<90, 30>>}, e \in {<<30, 10>>, <<10, 30>>},
        f \in {<<20, 20>>}}

\* The atoms _update_propars_atom has been called for in the current step.
OrderInit ==
    /\ cfg \in OuterCfgs
    /\ obj = Built(cfg)
    /\ cphase = "built"
    /\ coutcome = "none"
    /\ sin = NoCall
    /\ srun = NoRun
    /\ \E m \in OrderMolecules, th \in OuterThresholds, mi \in OuterMaxiters,
          ith \in OuterInnerThresholds :
          part = [phase |-> "Initializing", scheme |-> obj.scheme,
                  solver |-> obj.solver, numbers |-> m.numbers,
                  pseudo_numbers |-> m.pseudo_numbers, dens |-> m.dens,
                  threshold |-> th, maxiter |-> mi, inner_threshold |-> ith,
                  ranges |-> <<>>, nshells |-> <<>>, propars |-> <<>>,
                  charges |-> <<>>, old_charges |-> <<>>, wpro |-> <<>>,
                  counter |-> 0, change |-> -1, iatom |-> 0, err |-> "none",
                  last |-> [iatom |-> 0, returned |-> <<>>, irep |-> 0],
                  dumped |-> {}, done |-> {}]

\* _update_propars_atom(iatom) for any atom not yet updated in this step.
UpdateAnyAtom ==
    /\ part.phase = "Iterating"
    /\ \E a \in (1..Len(part.numbers)) \ part.done :
          \E res \in OptOutcomes(part, OptCall(part, a)) :
             part' = [UpdateProparsAtom(part, a, res) EXCEPT
                         !.iatom = part.iatom, !.done = @ \cup {a}]
    /\ UNCHANGED <<ctorVars, solverVars>>

\* The end of the step once every atom has been updated.
OrderStepEnd ==
    /\ part.phase = "Iterating"
    /\ part.done = 1..Len(part.numbers)
    /\ part' = [EndOuterStep(part) EXCEPT !.done = {}]
    /\ UNCHANGED <<ctorVars, solverVars>>

OrderNext == InitPropars \/ UpdateAnyAtom \/ OrderStepEnd

OrderSpec == OrderInit /\ [][OrderNext]_vars

-----------------------------------------------------------------------------
(* The initial MBIS parameters of every element.                           *)

\* The atomic numbers up to the last noble gas of the table.
MbisNumbers == 1..noble[Len(noble)]

MbisInitialInit ==
    /\ cfg \in {c \in Cfgs : /\ c.scheme = "gisa" /\ c.solver = PyInt(1)
                             /\ c.basis_func_type = PyStr("gauss")
                             /\ c.diis_size = PyInt(8)
                             /\ ~c.use_global_method}
    /\ obj = NoObj
    /\ cphase = "new"
    /\ coutcome = "none"
    /\ sin = NoCall
    /\ srun = NoRun
    /\ \E number \in MbisNumbers :
          part = [phase |-> "Number", number |-> number, nshell |-> 0,
                  propars |-> <<>>]

\* nshell = _get_nshell(number); propars = _get_initial_mbis_propars(number)
GetInitialMbisPropars ==
    /\ part.phase = "Number"
    /\ part' = [part EXCEPT !.phase = "Initial",
                            !.nshell = mbis_get_nshell(part.number),
                            !.propars = get_initial_mbis_propars(part.number)]
    /\ UNCHANGED <<ctorVars, solverVars>>

MbisInitialNext == GetInitialMbisPropars

MbisInitialSpec == MbisInitialInit /\ [][MbisInitialNext]_vars

-----------------------------------------------------------------------------
(* Properties of the constructor and of the dispatch.                      *)

\* C1: for every solver tag passed as `solver` to the LISA constructor, the
\* value _opt_propars and the global branch of do_partitioning dispatch on
\* (self._solver) is that tag, and the basis function type in use
\* (self.func_type) is the basis_func_type that was passed.
C1_LisaKeepsSolverAndFuncType ==
    (cphase # "new" /\ cfg.scheme = "lisa") =>
        /\ PyEq(obj.solver, cfg.solver)
        /\ PyEq(obj.func_type, cfg.basis_func_type)

\* The tags each dispatch names in one of its branches.
RecognizedTags(c) ==
    IF c.scheme = "gisa" THEN GisaTags
    ELSE IF c.use_global_method THEN GlobalTags
    ELSE LisaTags

\* C7: the per-atom dispatch of GISA and LISA and the global mode raise the
\* unsupported-solver error (NotImplementedError) for every configured tag
\* outside the recognized set and for no recognized tag.
C7_UnsupportedExactlyForUnknownTags ==
    cphase = "dispatched" =>
        ((coutcome = "NotImplementedError") <=>
            (cfg.solver[2] \notin RecognizedTags(cfg)))

-----------------------------------------------------------------------------
(* Properties of one solver call.                                          *)

\* The amplitudes of a returned parameter vector (for MBIS the entries N).
ReturnedPopulation ==
    IF sin.fn = "_opt_mbis_propars" THEN MbisPopulation(srun.propars)
    ELSE Sum(srun.propars)

ReturnedAmplitudes ==
    IF sin.fn = "_opt_mbis_propars"
    THEN [k \in 1..(Len(srun.propars) \div 2) |-> MbisN(srun.propars, k)]
    ELSE srun.propars

\* C2: whenever a solver returns an amplitude vector, the returned amplitudes
\* sum to the population N_a of the target density within the tolerance.
C2_ReturnedAmplitudesSumToPopulation ==
    (srun.st = "ret" /\ srun.irep < MbisCap) =>
        IsClose(ReturnedPopulation, Population(sin.rho))

\* C3: no solver returns a vector with an entry below the non-negativity
\* tolerance.
C3_ReturnedAmplitudesNonNegative ==
    srun.st = "ret" => AllNonNeg(ReturnedAmplitudes)

\* The iteration cap of each iterative solver.
CapOf(fn) ==
    IF fn = "_opt_mbis_propars" THEN MbisCap
    ELSE IF fn = "opt_propars_fixed_points_plus_lisa1" THEN FallbackCap
    ELSE IF fn \in DiisSolvers THEN DiisCap
    ELSE IF fn = "opt_propars_fixed_points_newton" THEN NewtonCap
    ELSE ScCap

IterativeSolvers == LoopSolvers \cup DiisSolvers \cup {"_opt_mbis_propars"}

\* C5: an iterative solver that has used up its iteration cap ends with a
\* non-convergence error and returns nothing.
C5_CapExhaustionRaisesNotConverged ==
    (sin.fn \in IterativeSolvers /\ srun.st # "run"
        /\ srun.irep >= CapOf(sin.fn)) =>
        (srun.st = "raise" /\ srun.err = "NotConverged")

\* C6: for a single-shell atom the SC, damped SC and DIIS variants return the
\* target population N_a whatever the warm start.
C6_SingleShellReturnsPopulation ==
    (srun.st = "ret" /\ Len(sin.propars) = 1
        /\ sin.fn \in {"opt_propars_fixed_points_sc",
                       "opt_propars_fixed_points_sc_damping",
                       "opt_propars_fixed_points_diis",
                       "opt_propars_fixed_points_diis2"}) =>
        IsClose(srun.propars[1], Population(sin.rho))

-----------------------------------------------------------------------------
(* Properties of the partitioning run.                                     *)

\* C8: after _update_propars_atom(iatom), charges[iatom] is the pseudo number
\* minus the sum of the amplitudes the solver has just returned for the atom.
C8_ChargeIsPseudoNumberMinusAmplitudes ==
    part.phase \in {"Iterating", "Converged", "MaxIterReached"}
        /\ part.last.iatom # 0 =>
        LET a == part.last.iatom
            amps == IF part.scheme = "mbis"
                    THEN MbisPopulation(part.last.returned)
                    ELSE Sum(part.last.returned)
        IN  IsClose(part.charges[a],
                    Electron * part.pseudo_numbers[a] - amps)

OuterPhases ==
    {<<"Initializing", "Iterating">>, <<"Iterating", "Converged">>,
     <<"Iterating", "MaxIterReached">>}

RangesPartition(q) ==
    LET step == IF q.scheme = "mbis" THEN 2 ELSE 1
        natom == Len(q.numbers)
        shells(i) == IF q.scheme = "mbis" THEN mbis_get_nshell(q.numbers[i])
                     ELSE get_nshell(q.numbers[i])
    IN  /\ Len(q.ranges) = natom + 1
        /\ q.ranges[1] = 0
        /\ \A i \in 1..natom :
              /\ q.ranges[i] <= q.ranges[i + 1]
              /\ q.ranges[i + 1] - q.ranges[i] = step * shells(i)
              /\ q.nshells[i] = shells(i)
        /\ q.ranges[natom + 1] = Len(q.propars)

\* C10: after _init_propars, _ranges starts at 0, is non-decreasing, steps by
\* the shell count of each atom (twice that for MBIS) and ends at the length
\* of propars; no later step changes _ranges or _nshells.
C10_RangesPartitionPropars ==
    /\ [](part.phase \notin {"none", "Initializing"} => RangesPartition(part))
    /\ [][part.phase \notin {"none", "Initializing"} =>
            part'.ranges = part.ranges /\ part'.nshells = part.nshells]_vars

C10_Witness ==
    /\ part.phase = "Iterating" /\ part.counter >= 1
    /\ part.scheme = "mbis" /\ Len(part.numbers) = 2
    /\ part.ranges = <<0, 4, 6>>

-----------------------------------------------------------------------------
(* Properties of the global method.                                        *)

\* C4: the joint fixed-point loop of _update_propars_lisa2_globally ends, by
\* its convergence test or by an iteration cap, whatever the threshold.
C4_GlobalLoopTerminates ==
    part.phase = "GlobalLoop" ~> part.phase = "GlobalReturned"


-----------------------------------------------------------------------------
(* Properties of the SC iteration.                                         *)

NonNegative(x) == \A k \in DOMAIN x : x[k] >= 0

ScCallNonNegative ==
    /\ sin.fn = "opt_propars_fixed_points_sc"
    /\ NonNegative(sin.propars) /\ NonNegative(sin.rho)

\* C11: in opt_propars_fixed_points_sc, a non-negative warm start and a
\* non-negative target density keep propars non-negative after every pass of
\* the loop, and the negative pro-shell density error is never raised.
C11_ScKeepsAmplitudesNonNegative ==
    ScCallNonNegative =>
        /\ NonNegative(srun.propars)
        /\ ~(srun.st = "raise" /\ srun.err = "NegShell")

C11_Witness ==
    /\ ScCallNonNegative /\ srun.st = "run" /\ srun.irep >= 2
    /\ Len(srun.propars) = 2 /\ srun.propars # sin.propars

\* 0.9 of the fresh update plus 0.1 of the previous amplitudes, rounded.
BlendNinetyNew(new, prev) ==
    [k \in 1..Len(new) |-> DivRound(9 * new[k] + prev[k], 10)]

CloseVectors(x, y) ==
    Len(x) = Len(y) /\ \A k \in 1..Len(x) : IsClose(x[k], y[k])

\* C12: the amplitudes a pass of opt_propars_fixed_points_sc_damping carries
\* into the next pass are 0.9 of the pass's SC update plus 0.1 of the
\* amplitudes the pass started from.
C12_DampingBlendsNewWithPrevious ==
    [][DampingStep /\ srun'.st = "run" =>
          CloseVectors(srun'.propars,
                       BlendNinetyNew(
                           FixedPointMap(srun.propars, sin.alphas, sin.rho),
                           srun.propars))]_vars

-----------------------------------------------------------------------------
(* Properties of the DIIS solvers.                                         *)

\* C13: a singular Pulay matrix makes neither DIIS solver fail: the solver
\* goes on with the plain SC update instead of ending in the error of the
\* linear solve.
C13_SingularPulayDoesNotFail ==
    sin.fn \in DiisSolvers => ~(srun.st = "raise" /\ srun.err = "LinAlgError")

\* C14: a population mismatch at the convergence point is a warning only: the
\* density-space DIIS solver does not end in a failed assertion and the MBIS
\* solver does not end in a raised RuntimeWarning because of it.
C14_PopulationMismatchOnlyWarns ==
    /\ sin.fn = "opt_propars_fixed_points_diis" =>
          ~(srun.st = "raise" /\ srun.err = "AssertionError")
    /\ sin.fn = "_opt_mbis_propars" =>
          ~(srun.st = "raise" /\ srun.err = "RuntimeWarning")

\* C15: in both DIIS solvers no extrapolation is made before diis_size
\* iterates are recorded, and the Pulay system of a pass is built from at most
\* the diis_size latest history entries: its dimension is at most
\* diis_size + 1.
C15_PulayWindowBounded ==
    sin.fn \in DiisSolvers =>
        /\ srun.bdim <= sin.diis_size + 1
        /\ srun.bdim > 0 => srun.bdim - 1 >= sin.diis_size

-----------------------------------------------------------------------------
(* Properties of the script's constructor call.                            *)

ConfigSurface ==
    {"lmax", "threshold", "maxiter", "inner_threshold", "local_grid_radius",
     "solver", "diis_size", "use_global_method"}

\* C16: every option of the configuration surface is a parameter of the LISA
\* constructor, every keyword the script passes for type lisa is one too, and
\* so the script's construction of a LISA partitioner does not fail on an
\* unrecognized option.
C16_LisaAcceptsScriptOptions ==
    cfg.type = "lisa" /\ cphase # "new" =>
        /\ ConfigSurface \subseteq Names(LisaCtorParams)
        /\ ScriptKwargs(cfg) \subseteq Names(LisaCtorParams)
        /\ coutcome # "TypeError"

-----------------------------------------------------------------------------
(* Properties of the Hessian of the global method.                         *)

\* C17: element (i, j) of the Hessian is zero without integration exactly when
\* the atoms owning shells i and j are farther apart than the cutoff; shells
\* of one atom, or of atoms within the cutoff, get the integrated value.
C17_HessianSkipsOnlyDistantAtoms ==
    part.phase = "HessBuilt" =>
        LET owner == ShellOwners(part.numbers)
        IN  \A i, j \in 1..Len(owner) :
                part.hess[i][j] = "zero" <=>
                    Abs(part.coordinates[owner[i]]
                        - part.coordinates[owner[j]]) > HessCutoff

-----------------------------------------------------------------------------
(* Properties of a failed atom update.                                     *)

\* C18: when the solver raises inside _update_propars_atom(iatom), the error
\* leaves the call and the cached propars (the slice of iatom with them) and
\* the charges are what they were before the call.
C18_FailedUpdateLeavesCache ==
    [][part.phase = "Iterating" /\ part'.phase = "Failed" =>
          /\ part'.err # "none"
          /\ part'.propars = part.propars
          /\ part'.charges = part.charges]_vars

C18_Witness ==
    /\ part.phase = "Failed" /\ part.scheme = "mbis"
    /\ part.err \in {"RuntimeWarning", "CheckFailed"}
    /\ part.last.iatom # 0

-----------------------------------------------------------------------------
(* Properties of the SC solver on one shell and on its own output.         *)

ScOneShellCall ==
    /\ sin.fn = "opt_propars_fixed_points_sc"
    /\ Len(sin.propars) = 1 /\ sin.propars[1] > 0
    /\ sin.threshold > 0

\* C19: for one shell, a positive warm start and a positive threshold,
\* opt_propars_fixed_points_sc never raises and returns N_a on its third pass
\* at the latest (so in fewer than 50); for a density of one electron and the
\* warm start 0.5 it returns 1.
C19_ScOneShellReturnsPopulation ==
    ScOneShellCall =>
        /\ srun.st # "raise"
        /\ srun.irep < 3
        /\ srun.st = "ret" => IsClose(srun.propars[1], Population(sin.rho))
        /\ srun.irep >= 1 => IsClose(srun.propars[1], Population(sin.rho))

C19_Witness ==
    /\ ScOneShellCall /\ srun.st = "ret"
    /\ sin.propars = <<Electron \div 2>>
    /\ Population(sin.rho) = Electron
    /\ srun.propars = <<Electron>>

\* C20: opt_propars_fixed_points_sc called again on the vector it returned,
\* with the same density, widths and threshold, returns a vector that differs
\* from that input by less than the threshold in every component (the
\* threshold is in density units, BsNorm per amplitude unit; one unit of
\* rounding is allowed for).
C20_ScIdempotentOnItsOutput ==
    part.phase = "SecondCall" /\ srun.st = "ret" =>
        \A k \in 1..Len(srun.propars) :
            BsNorm * (Abs(srun.propars[k] - part.first[k]) - RoundTol)
                < sin.threshold

-----------------------------------------------------------------------------
(* Properties of the per-atom updates of one step.                         *)

\* The states two successive calls of _update_propars_atom can leave, for
\* atoms a then b: the second call is made only if the first returned.
RunTwo(q, a, b) ==
    UNION {LET q1 == UpdateProparsAtom(q, a, ra)
           IN  IF q1.phase = "Failed" THEN {q1}
               ELSE {UpdateProparsAtom(q1, b, rb) :
                        rb \in OptOutcomes(q1, OptCall(q1, b))} :
           ra \in OptOutcomes(q, OptCall(q, a))}

BothReturned(S) == {q \in S : q.phase # "Failed"}
CachedVectors(S) == {<<q.propars, q.charges>> : q \in S}

PendingPairs ==
    IF part.phase = "Iterating" /\ "done" \in DOMAIN part
    THEN {ab \in ((1..Len(part.numbers)) \ part.done)
                 \X ((1..Len(part.numbers)) \ part.done) : ab[1] < ab[2]}
    ELSE {}

\* C21: within one outer step, for any two atoms a and b whose updates both
\* return, _update_propars_atom(a) then _update_propars_atom(b) leaves the
\* propars vector and the charges vector as the opposite order does.
C21_ReturningUpdatesCommute ==
    \A ab \in PendingPairs :
        CachedVectors(BothReturned(RunTwo(part, ab[1], ab[2])))
            = CachedVectors(BothReturned(RunTwo(part, ab[2], ab[1])))

\* Two pending atoms of a later step whose updates return and change the
\* cached amplitudes.
C21_Witness ==
    /\ part.phase = "Iterating"
    /\ part.counter > 0
    /\ \E ab \in PendingPairs :
          \E q \in BothReturned(RunTwo(part, ab[2], ab[1])) :
             /\ Slice(q, ab[1]) # Slice(part, ab[1])
             /\ Slice(q, ab[2]) # Slice(part, ab[2])

\* The atom an update step was called for.
UpdatedAtoms == part'.done \ part.done

UpdateStepTaken ==
    /\ part.phase = "Iterating" /\ part'.phase \in {"Iterating", "Failed"}
    /\ UpdatedAtoms # {}

OthersKept(a) ==
    /\ \A b \in (1..Len(part.numbers)) \ {a} :
          /\ Slice(part', b) = Slice(part, b)
          /\ part'.charges[b] = part.charges[b]
          /\ {t \in part'.dumped : t[2] = b} = {t \in part.dumped : t[2] = b}
    /\ part'.ranges = part.ranges
    /\ part'.nshells = part.nshells
    /\ part'.wpro = part.wpro

\* C22: _update_propars_atom(iatom) leaves every other atom's propars slice,
\* charge and cache entries, _ranges, _nshells and the atomic weights as they
\* were; besides its own slice and charges[iatom] it writes only the MBIS
\* cache entries of its own atom.
C22_UpdateKeepsOtherAtoms ==
    [][UpdateStepTaken => \A a \in UpdatedAtoms : OthersKept(a)]_vars

\* An atom other than the first was updated while another is still pending,
\* and its slice holds what the solver returned.
C22_Witness ==
    /\ part.phase = "Iterating"
    /\ "done" \in DOMAIN part
    /\ part.done # {} /\ 1 \notin part.done
    /\ part.last.iatom \in part.done
    /\ Slice(part, part.last.iatom) = part.last.returned
    /\ Slice(part, part.last.iatom) # Slice(part, 1)

\* C22 as stated: the call writes nothing but propars[_ranges[iatom] :
\* _ranges[iatom + 1]] and charges[iatom].
C22_UpdateWritesOnlySliceAndCharge ==
    [][UpdateStepTaken =>
          /\ \A a \in UpdatedAtoms : OthersKept(a)
          /\ part'.dumped = part.dumped]_vars

-----------------------------------------------------------------------------
(* Properties of do_partitioning in the global mode.                       *)

GlobalChargePhases == {"Charges", "Done"}

\* C23: in the global mode the jointly optimized amplitudes are in the cached
\* propars before the weights are recomputed, every charge is computed after
\* that weight update and from the weights of the vector then cached, and no
\* outer iteration is performed.
C23_GlobalChargesFollowWeights ==
    /\ part.phase \in GlobalChargePhases =>
          /\ part.propars = part.new_propars
          /\ part.weighted_from = part.propars
          /\ part.wpro = [a \in 1..Len(part.numbers) |-> ProAtom(part, a)]
    /\ part.phase \notin GlobalChargePhases => part.charges = <<>>
    /\ part.phase \notin {"Iterating", "Converged", "MaxIterReached"}

\* The run of an object that dispatched the joint minimization has computed
\* every charge from amplitudes other than the initial ones.
C23_Witness ==
    /\ part.phase = "Done"
    /\ GlobalDispatch(part.solver) = "_update_propars_lisa1_globally"
    /\ part.propars # GisaInitPropars(part.numbers).propars
    /\ Len(part.charges) = Len(part.numbers)

-----------------------------------------------------------------------------
(* Properties of the DIIS coefficients.                                    *)

\* C24: whenever a DIIS solver has updated the amplitudes from extrapolated
\* data, it has first checked that the mixing coefficients sum to 1, in both
\* DIIS variants and at every log level.
C24_MixingCoefficientsValidated ==
    sin.fn \in DiisSolvers /\ srun.mixed /\ srun.st # "raise" => srun.validated

-----------------------------------------------------------------------------
(* Properties of the initial MBIS parameters.                              *)

\* The noble-gas numbers strictly below a number.
NobleBelow(number) == {i \in 1..Len(noble) : noble[i] < number}

\* C25: for every atomic number Z in 1..118, _get_initial_mbis_propars(Z) has
\* exactly 2 * _get_nshell(Z) values, _get_nshell(Z) is in 1..7 and is one plus
\* the number of noble-gas numbers strictly below Z, and the amplitudes (the
\* even positions from 0) are strictly positive and sum to Z.
C25_InitialMbisPropars ==
    part.phase = "Initial" =>
        /\ Len(part.propars) = 2 * part.nshell
        /\ part.nshell \in 1..7
        /\ part.nshell = 1 + Cardinality(NobleBelow(part.number))
        /\ part.number <= noble[part.nshell]
        /\ part.nshell > 1 => noble[part.nshell - 1] < part.number
        /\ \A k \in 1..part.nshell : MbisN(part.propars, k) > 0
        /\ MbisPopulation(part.propars) = Electron * part.number

\* The heaviest element: seven shells.
C25_Witness ==
    /\ part.phase = "Initial"
    /\ part.number = 118
    /\ part.nshell = 7
    /\ Len(part.propars) = 14

-----------------------------------------------------------------------------
(* Properties of the warnings of the minimization solvers.                 *)

MinimizationSolvers ==
    {"opt_propars_minimization_fast", "opt_propars_minimization_slow",
     "opt_propars_minimization_trust_constr"}

\* C26: a minimization solver that returns amplitudes whose sum differs from
\* the target population by the tolerance or more, above it or below it, has
\* issued the population-mismatch warning.
C26_MismatchWarnedBothWays ==
    /\ sin.fn \in MinimizationSolvers
    /\ srun.st = "ret"
    /\ Sum(srun.propars) # Population(sin.rho)
    => "The sum of results is not equal to N_a!" \in srun.warned

-----------------------------------------------------------------------------
(* Properties of the SC solver with the minimization fallback.             *)

\* C27: when the SC loop of opt_propars_fixed_points_plus_lisa1 has used its
\* 1000 iterations without converging, the call ends by returning the
\* amplitude vector of the minimization started from the warm start: nprim
\* amplitudes that minimise the likelihood for the same target density.
C27_FallbackReturnsMinimizer ==
    /\ sin.fn = "opt_propars_fixed_points_plus_lisa1"
    /\ srun.irep >= FallbackCap
    /\ srun.st # "run"
    => /\ srun.st = "ret"
       /\ Len(srun.propars) = Len(sin.propars)
       /\ srun.propars \in LikelihoodMinima(sin)

-----------------------------------------------------------------------------
(* Properties of the comparison mode.                                      *)

\* C28: a GISA or LISA object built for solver tag 0 dispatches the comparison
\* of solvers, which runs and hands one amplitude vector back: no atom update
\* of such an object fails.
C28_ComparisonModeReturns ==
    /\ part.phase # "none"
    /\ part.scheme \in {"gisa", "lisa"}
    /\ IsTag(cfg.solver, 0)
    => part.phase # "Failed"

-----------------------------------------------------------------------------
(* Properties of DIIS once it is turned off.                               *)

DiisPass ==
    /\ sin.fn = "opt_propars_fixed_points_diis"
    /\ srun.st = "run" /\ srun'.st = "run"
    /\ srun'.irep = srun.irep + 1

\* C29: in opt_propars_fixed_points_diis, DIIS that is off stays off, and the
\* pass that turns it off and every later pass update the amplitudes by the
\* plain SC rule from the unextrapolated shells and pro-atom density.
C29_DiisStaysOff ==
    [][DiisPass =>
          /\ srun.off => srun'.off
          /\ srun'.off =>
                /\ ~srun'.mixed
                /\ srun'.propars
                       = FixedPointMap(srun.propars, sin.alphas, sin.rho)
                /\ srun'.oldpro
                       = ClipFloor(SumShells(Shells(srun.propars, sin.alphas)))
      ]_vars

\* A pass made after the one that turned DIIS off, with residuals whose
\* Pulay equation has a solution again.
C29_Witness ==
    /\ sin.fn = "opt_propars_fixed_points_diis"
    /\ srun.off /\ ~srun.mixed
    /\ srun.irep > sin.diis_size + 1
    /\ Len(srun.hdiis) > 1
    /\ Solve(PulayMatrix(srun.hdiis), PulayRhs(Len(srun.hdiis))).den # 0

-----------------------------------------------------------------------------
(* Properties of the results file of the script.                           *)

\* C30: the results file holds the charges of the partitioning run under the
\* key charges and, outside the global mode, niter and the histories of the
\* run; no name of the input file replaces a computed entry.
C30_ResultsHoldComputedEntries ==
    part.phase = "saved" =>
        \A k \in CacheResults(cfg) :
            k \in DOMAIN part.saved /\ part.saved[k] = part.cache[k]

====
